---- MODULE Spec2Model ----
(***************************************************************************)
(* Jackpot IQ API: the device attestation pipeline (services/appAttest.js), *)
(* the auth routes that call it (routes/auth.js) and the verified-devices   *)
(* registry kept by services/dataService.js.                                *)
(*                                                                          *)
(* The repository holds four iterations of services/appAttest.js and two    *)
(* of routes/auth.js.  The model keeps every iteration and a deployment     *)
(* runs exactly one of each:                                                *)
(*   "v1"  src/src/services/appAttest.js, lines 1-170                       *)
(*   "v2"  src/src/services/appAttest.js, lines 171-500                     *)
(*   "v3"  src/unnamed/part_002                                             *)
(*   "v4"  src/unnamed/part_003                                             *)
(*   "registry-routes"  src/unnamed/part_001, lines 1-189                   *)
(*   "token-routes"     src/src/routes/auth.js, lines 1-71                  *)
(***************************************************************************)
EXTENDS Integers, Sequences, FiniteSets, TLC

(***************************************************************************)
(* Values.  Byte strings are abstracted to names; a JS undefined (an absent *)
(* field) is the reserved value Undefined, never a string a client sends.   *)
(***************************************************************************)
Undefined == "<undefined>"

AttestIterations == {"v1", "v2", "v3", "v4"}

\* crypto.createHash('sha256').update(x).digest(): injective on the names used.
SHA256(x) == <<"sha256", x>>

\* crypto.createHash('sha256').update(x).digest('hex')
SHA256Hex(x) == "sha256hex(" \o x \o ")"

\* A 32-byte value in authData that is the hash of no challenge of the model.
JunkNonce == <<"raw", "junk">>

\* Buffer.slice(32, 64) of a buffer shorter than 64 bytes: fewer than 32 bytes.
ShortSlice == <<"raw", "short">>

\* Key identifiers that are 64 hexadecimal digits (the leaf's subject CN).
Hex64KeyIds == {"kidA", "kidB"}

\* A hexadecimal CN that is not 64 digits long.
ShortHexKeyId == "ab12"

\* keyId.substring(0, 16): the first 16 hex digits of a key identifier.
Prefix16(k) ==
  CASE k = "kidA" -> "kidA[0:16]"
    [] k = "kidB" -> "kidB[0:16]"
    [] OTHER -> k

\* A 64-digit CN in upper case: the hexadecimal digits of "kidA".
UpperKeyId == "KIDA"

\* A CN that continues after its hexadecimal digits.
SuffixedKeyId == "ab12-suffix"

\* subject.match(/CN=([a-f0-9]+)/i)[1].toLowerCase(): the leading run of
\* hexadecimal digits of the CN in lower case, "" when there is no match.
cnMatch(cn) ==
  CASE cn = UpperKeyId -> "kidA"
    [] cn = SuffixedKeyId -> ShortHexKeyId
    [] OTHER -> cn

\* The names whose SHA-256 the model takes.
Hashed == {ShortHexKeyId, "", "rcptA", "rcptB", "rcptC", "rcptD", "rcptE"}

\* /^[0-9a-f]{64}$/i.test(deviceId): the 64-digit key identifiers and
\* receipt fields of the model, and every hex digest.
isValidDeviceId(deviceId) ==
  deviceId \in Hex64KeyIds \cup {UpperKeyId, "tail64", "rcpt64"}
                \cup { SHA256Hex(x) : x \in Hashed }

(***************************************************************************)
(* Certificates (crypto.X509Certificate).                                   *)
(*   parses    new crypto.X509Certificate(buf) does not throw               *)
(*   pem       the buffer is PEM text (usable as a key by crypto.verify)    *)
(*   inWindow  validFrom <= now <= validTo                                  *)
(*   key       the certificate's public key                                 *)
(*   signer    the key its signature verifies under                         *)
(*   issuer    the issuer string                                            *)
(*   cn        the hex run matched by /CN=([a-f0-9]+)/i in the subject,     *)
(*             lower-cased; "" when the subject does not match              *)
(*   appIds    the subject contains APPLE_BUNDLE_ID and APPLE_TEAM_ID       *)
(***************************************************************************)
AAAIssuer == "CN=Apple App Attestation CA 1"
AppleOtherIssuer == "CN=Apple Worldwide Developer Relations"
ForeignIssuer == "CN=Example CA"

\* String.prototype.includes on the issuer strings of the model.
IssuerIncludesApple(issuer) == issuer \in {AAAIssuer, AppleOtherIssuer}
IssuerIncludesAAA(issuer) == issuer = AAAIssuer

Cert(parses, pem, inWindow, key, signer, issuer, cn) ==
  [parses |-> parses, pem |-> pem, inWindow |-> inWindow, key |-> key,
   signer |-> signer, issuer |-> issuer, cn |-> cn, appIds |-> FALSE]

GoodLeaf(k) == Cert(TRUE, FALSE, TRUE, "leafKey", "caKey", AAAIssuer, k)
GoodCA == Cert(TRUE, FALSE, TRUE, "caKey", "rootKey", "CN=Apple App Attestation Root CA", "")

\* The configured APPLE_ROOT_CA; rootValid: the buffer parses as a certificate.
RootCert(rootValid) ==
  Cert(rootValid, FALSE, TRUE, "rootKey", "rootKey", "CN=Apple App Attestation Root CA", "")

LeafCerts ==
  { GoodLeaf("kidA"), GoodLeaf("kidB"), GoodLeaf(ShortHexKeyId), GoodLeaf(""),
    [GoodLeaf("kidA") EXCEPT !.inWindow = FALSE],
    [GoodLeaf("kidA") EXCEPT !.signer = "attackerKey"],
    [GoodLeaf("kidA") EXCEPT !.signer = "rootKey"],
    [GoodLeaf("kidA") EXCEPT !.issuer = AppleOtherIssuer],
    [GoodLeaf("kidA") EXCEPT !.issuer = ForeignIssuer],
    [GoodLeaf("kidA") EXCEPT !.parses = FALSE],
    [GoodLeaf("kidA") EXCEPT !.pem = TRUE] }

CACerts ==
  { GoodCA,
    [GoodCA EXCEPT !.inWindow = FALSE],
    [GoodCA EXCEPT !.signer = "attackerKey"],
    [GoodCA EXCEPT !.parses = FALSE] }

\* Longest certificate chain of the model.
MaxChain == 2

Chains ==
  {<<>>} \cup { <<l>> : l \in LeafCerts } \cup
  (IF MaxChain >= 2 THEN { <<l, c>> : l \in LeafCerts, c \in CACerts } ELSE {}) \cup
  (IF MaxChain >= 3 THEN { <<l, c, GoodCA>> : l \in LeafCerts, c \in CACerts } ELSE {})

(***************************************************************************)
(* authData (a Buffer).                                                     *)
(*   present     the field exists                                           *)
(*   length      its length in bytes                                        *)
(*   nonce       bytes 32..64 (meaningful when length >= 64)                *)
(*   devPattern  its hex contains "appattestdevelop"                        *)
(*   includes    the 16-digit key-identifier prefixes its hex contains      *)
(***************************************************************************)
AuthData(present, length, nonce, devPattern, includes) ==
  [present |-> present, length |-> length, nonce |-> nonce,
   devPattern |-> devPattern, includes |-> includes]

NoAuthData == AuthData(FALSE, 0, ShortSlice, FALSE, {})

\* attestation.authData.slice(32, 64)
Slice32to64(ad) == IF ad.length >= 64 THEN ad.nonce ELSE ShortSlice

(***************************************************************************)
(* Receipts (attStmt.receipt).                                              *)
(*   present  the field exists                                              *)
(*   bytes    the name of its content                                       *)
(*   der      "standard": a DER SEQUENCE of the five fields version,        *)
(*            signature, receiptType, receiptData, deviceId;                *)
(*            "other": another well-formed DER element;                     *)
(*            "garbage": not DER                                            *)
(*   deviceId hex of the deviceId OCTET STRING of a "standard" receipt      *)
(*   tail     hex of the last 32 bytes (the whole buffer when shorter)      *)
(***************************************************************************)
Receipt(present, bytes, der, deviceId, tail) ==
  [present |-> present, bytes |-> bytes, der |-> der, deviceId |-> deviceId, tail |-> tail]

NoReceipt == Receipt(FALSE, "", "garbage", "", "")

Receipts ==
  { NoReceipt,
    Receipt(TRUE, "rcptA", "standard", "rcpt64", "tail64"),
    Receipt(TRUE, "rcptB", "standard", "0a0b", "tail64"),
    Receipt(TRUE, "rcptC", "other", "", "tail64"),
    Receipt(TRUE, "rcptD", "garbage", "", "tail64"),
    Receipt(TRUE, "rcptE", "garbage", "", "0102") }

(***************************************************************************)
(* The decoded attestation object.                                          *)
(*   decodes  cbor.decode(attestation) does not throw                       *)
(*   fmt      the fmt field ("" when absent)                                *)
(*   attStmt  the attStmt field exists                                      *)
(*   x5c      [present, certs]: attStmt.x5c                                 *)
(*   sig      attStmt.sig: "absent", or "valid"/"invalid" as a signature of *)
(*            authData || clientDataHash under the leaf's public key        *)
(*   clientDataHash  attStmt.clientDataHash exists                          *)
(***************************************************************************)
Attestation(decodes, fmt, attStmt, x5cPresent, certs, receipt, authData, sig, cdh) ==
  [decodes |-> decodes, fmt |-> fmt, attStmt |-> attStmt,
   x5c |-> [present |-> x5cPresent, certs |-> certs],
   receipt |-> receipt, authData |-> authData, sig |-> sig, clientDataHash |-> cdh]

(***************************************************************************)
(* The checks of AppAttestService, one definition per iteration that        *)
(* differs.  A check that can throw returns "true", "false" or "throw".     *)
(***************************************************************************)

\* v1 and v2: fmt, attStmt, x5c (non-empty) and receipt.
isValidAttestationFormat_v1(a) ==
  /\ a.fmt = "apple-appattest"
  /\ a.attStmt
  /\ a.x5c.present
  /\ Len(a.x5c.certs) > 0
  /\ a.receipt.present

\* A shape check that accepts every decoded attestation.
acceptAnyFormat(a) == TRUE

\* v3 and v4: the same fields and authData, checked one by one.
isValidAttestationFormat_v3(a) ==
  IF a.fmt = "" THEN FALSE
  ELSE IF a.fmt # "apple-appattest" THEN FALSE
  ELSE IF ~a.attStmt THEN FALSE
  ELSE IF ~a.x5c.present THEN FALSE
  ELSE IF Len(a.x5c.certs) = 0 THEN FALSE
  ELSE IF ~a.receipt.present THEN FALSE
  ELSE IF ~a.authData.present THEN FALSE
  ELSE TRUE

isValidAttestationFormat(it, a) ==
  IF it \in {"v1", "v2"} THEN isValidAttestationFormat_v1(a)
  ELSE isValidAttestationFormat_v3(a)

\* getSignedData throws when authData or clientDataHash is missing (v1, v2:
\* Buffer.concat of undefined; v3, v4: the explicit throw).
getSignedDataThrows(a) == ~a.authData.present \/ ~a.clientDataHash

\* v2: certObj.validFrom is a string, so validFrom.getTime() throws a TypeError
\* and the catch returns false.
isValidCertificate_v2(cert) == FALSE

\* v3 and v4: the certificate parses and now is inside [validFrom, validTo].
isValidCertificate_v3(cert) == cert.parses /\ cert.inWindow

\* v2: crypto.verify('sha256', certObj.signature, signingKey, certObj.signature):
\* the signature is checked as a signature of itself, which no key accepts.
verifyCertificateSignature_v2(cert, signingCert) == FALSE

\* v3: "always return true in order to bypass certificate verification".
verifyCertificateSignature_v3(cert, signingCert) == TRUE

\* v4: both parse, and certObj.verify(signingCertObj.publicKey).
verifyCertificateSignature_v4(cert, signingCert) ==
  /\ cert.parses
  /\ signingCert.parses
  /\ cert.signer = signingCert.key

\* v2: issuer names Apple, subject names the bundle and the team.
verifyLeafCertificate_v2(cert) ==
  /\ cert.parses
  /\ IssuerIncludesApple(cert.issuer)
  /\ cert.appIds

\* v3: "bypass leaf certificate verification for testing".
verifyLeafCertificate_v3(cert) == TRUE

\* v4: issuer includes 'Apple' and 'Apple App Attestation CA'; bundle and team
\* are logged only.
verifyLeafCertificate_v4(cert) ==
  /\ cert.parses
  /\ IssuerIncludesApple(cert.issuer)
  /\ IssuerIncludesAAA(cert.issuer)

\* v1: the TODO stub.
verifyCertificateChain_v1(chain) == TRUE

\* v2: certChain[certChain.length - 1] of an empty chain is undefined, which
\* new crypto.X509Certificate rejects inside verifyCertificateSignature.
verifyCertificateChain_v2(rootValid, chain) ==
  LET n == Len(chain) IN
  /\ \A i \in 1..(n - 1) :
       /\ isValidCertificate_v2(chain[i])
       /\ verifyCertificateSignature_v2(chain[i], chain[i + 1])
  /\ n > 0
  /\ verifyCertificateSignature_v2(chain[n], RootCert(rootValid))
  /\ verifyLeafCertificate_v2(chain[1])

verifyCertificateChain_v3(chain) ==
  LET n == Len(chain) IN
  /\ \A i \in 1..(n - 1) :
       /\ isValidCertificate_v3(chain[i])
       /\ verifyCertificateSignature_v3(chain[i], chain[i + 1])
  /\ IF n > 0 THEN verifyCertificateSignature_v3(chain[n], RootCert(TRUE)) ELSE TRUE
  /\ IF n > 0 THEN verifyLeafCertificate_v3(chain[1]) ELSE TRUE

\* v4: the root must load; every certificate but the last is parsed, checked
\* for validity and against its successor; the last is checked against the
\* root only; the leaf's issuer is checked.  Any throw is caught as false.
verifyCertificateChain_v4(rootValid, chain) ==
  LET n == Len(chain) IN
  /\ rootValid
  /\ \A i \in 1..(n - 1) :
       /\ chain[i].parses
       /\ isValidCertificate_v3(chain[i])
       /\ verifyCertificateSignature_v4(chain[i], chain[i + 1])
  /\ n > 0
  /\ chain[n].parses
  /\ verifyCertificateSignature_v4(chain[n], RootCert(rootValid))
  /\ verifyLeafCertificate_v4(chain[1])

verifyCertificateChain(it, rootValid, chain) ==
  CASE it = "v1" -> verifyCertificateChain_v1(chain)
    [] it = "v2" -> verifyCertificateChain_v2(rootValid, chain)
    [] it = "v3" -> verifyCertificateChain_v3(chain)
    [] OTHER -> verifyCertificateChain_v4(rootValid, chain)

\* crypto.verify('sha256', signedData, {key: certChain[0], padding: PSS}, sig)
\* of v1, v2 and v3: the key is the raw certificate buffer, which crypto reads
\* as PEM; a DER buffer throws.
cryptoVerifyWithLeafBuffer(a, realData) ==
  LET leaf == a.x5c.certs[1] IN
  IF ~(leaf.pem /\ leaf.parses) THEN "throw"
  ELSE IF a.sig = "valid" /\ realData THEN "true"
  ELSE "false"

\* v4, lines 283-342: the explicit signature check with leafCertObj.publicKey
\* under both paddings.  "absent": no sig field.
explicitSignatureCheck_v4(a) ==
  IF a.sig = "absent" THEN "absent"
  ELSE IF getSignedDataThrows(a) THEN "throw"
  ELSE IF a.sig = "valid" THEN "true"
  ELSE "false"

\* v1 and v2: every throw is caught as false.
verifySignature_v1(it, rootValid, a) ==
  IF ~a.attStmt \/ ~a.x5c.present THEN FALSE
  ELSE IF ~verifyCertificateChain(it, rootValid, a.x5c.certs) THEN FALSE
  ELSE IF a.sig = "absent" THEN FALSE
  ELSE IF getSignedDataThrows(a) THEN FALSE
  ELSE IF Len(a.x5c.certs) = 0 THEN FALSE
  ELSE cryptoVerifyWithLeafBuffer(a, TRUE) = "true"

\* v3: the chain result is logged and dropped; a missing signature or signed
\* data is replaced by a dummy; a throwing crypto.verify returns true.
verifySignature_v3(a) ==
  IF ~a.attStmt \/ ~a.x5c.present THEN TRUE
  ELSE IF Len(a.x5c.certs) = 0 THEN TRUE
  ELSE LET r == cryptoVerifyWithLeafBuffer(a, ~getSignedDataThrows(a)) IN
       IF r = "throw" THEN TRUE ELSE r = "true"

\* v4: the chain decides; the explicit signature check cannot make it false.
verifySignature_v4(rootValid, a) ==
  IF ~a.attStmt \/ ~a.x5c.present THEN FALSE
  ELSE IF ~verifyCertificateChain_v4(rootValid, a.x5c.certs) THEN FALSE
  ELSE LET explicit == explicitSignatureCheck_v4(a) IN
       CASE explicit = "absent" -> TRUE
         [] explicit = "throw" -> TRUE
         [] explicit = "false" -> TRUE
         [] OTHER -> TRUE

verifySignature(it, rootValid, a) ==
  CASE it \in {"v1", "v2"} -> verifySignature_v1(it, rootValid, a)
    [] it = "v3" -> verifySignature_v3(a)
    [] OTHER -> verifySignature_v4(rootValid, a)
(***************************************************************************)
(* verifyChallenge                                                          *)
(***************************************************************************)

\* v1 and v2: nonce.equals(SHA-256(challenge)); a missing authData or an
\* undefined challenge throws.
verifyChallenge_v1(a, c) ==
  IF ~a.authData.present THEN "throw"
  ELSE IF c = Undefined THEN "throw"
  ELSE IF Slice32to64(a.authData) = SHA256(c) THEN "true"
  ELSE "false"

\* v3: the nonces are compared and the result is dropped: every path returns
\* true "for testing".
verifyChallenge_v3(a, c) ==
  IF ~a.authData.present THEN "true"
  ELSE IF c = Undefined \/ c = "" THEN "true"
  ELSE LET isEqual == Slice32to64(a.authData) = SHA256(c) IN "true"

\* v4: the nonce is sliced out and not compared; the check is that authData
\* contains "appattestdevelop" and the first 16 hex digits of the leaf's CN.
verifyChallenge_v4(a, c) ==
  IF ~a.authData.present THEN "false"
  ELSE IF c = Undefined \/ c = "" THEN "false"
  ELSE IF a.authData.length < 64 THEN "false"
  ELSE IF ~a.attStmt THEN "false"
  ELSE IF ~a.x5c.present \/ Len(a.x5c.certs) = 0 THEN "false"
  ELSE LET leaf == a.x5c.certs[1] IN
       IF ~leaf.parses THEN "false"
       ELSE IF cnMatch(leaf.cn) = "" THEN "false"
       ELSE IF a.authData.devPattern /\ Prefix16(cnMatch(leaf.cn)) \in a.authData.includes
            THEN "true"
       ELSE "false"

verifyChallenge(it, a, c) ==
  CASE it \in {"v1", "v2"} -> verifyChallenge_v1(a, c)
    [] it = "v3" -> verifyChallenge_v3(a, c)
    [] OTHER -> verifyChallenge_v4(a, c)

(***************************************************************************)
(* extractDeviceId: the identifier, or "" for null.                         *)
(***************************************************************************)

\* v1: the TODO stub returns a constant.
extractDeviceId_v1(a) ==
  IF ~a.attStmt \/ ~a.receipt.present THEN ""
  ELSE "device-id-from-receipt"

\* v2: the receipt must decode as the five-field SEQUENCE and its deviceId
\* must be 64 hex digits.
extractDeviceId_v2(a) ==
  IF ~a.attStmt \/ ~a.receipt.present THEN ""
  ELSE IF a.receipt.der # "standard" THEN ""
  ELSE IF ~isValidDeviceId(a.receipt.deviceId) THEN ""
  ELSE a.receipt.deviceId

\* Object.keys of what asn1.js returns for a choice: {type, value}.
ReceiptKeys == {"type", "value"}

\* v3: every failure returns a placeholder.  The decoded choice has the keys
\* type and value, so none of the three format branches is taken and the
\* value field is used: an object for a decoded SEQUENCE, the raw bytes for
\* another element.
extractDeviceId_v3(a) ==
  IF ~a.attStmt \/ ~a.receipt.present THEN "dummydummydummy"
  ELSE IF a.receipt.der = "garbage"
       THEN IF isValidDeviceId(a.receipt.tail) THEN a.receipt.tail
            ELSE "asn1asn1asn1asn1"
  ELSE IF "raw" \in ReceiptKeys /\ ~("standard" \in ReceiptKeys)
            /\ ~("alternative" \in ReceiptKeys)
       THEN a.receipt.tail
  ELSE IF "deviceId" \in ReceiptKeys THEN a.receipt.deviceId
  ELSE IF "value" \in ReceiptKeys
       THEN IF a.receipt.der = "standard" THEN "[object Object]"
            ELSE "hex(" \o a.receipt.bytes \o ")"
  ELSE "random"

\* An identifier taken from the receipt alone, whatever the leaf's CN.
deviceIdFromReceipt(a) ==
  IF a.receipt.present THEN SHA256Hex(a.receipt.bytes) ELSE ""

\* v4: the leaf's CN when it is 64 hex digits, else its SHA-256; the hash of
\* the receipt when the leaf does not parse.
extractDeviceId_v4(a) ==
  IF ~a.attStmt \/ ~a.x5c.present \/ Len(a.x5c.certs) = 0 THEN ""
  ELSE LET leaf == a.x5c.certs[1] IN
       IF leaf.parses
       THEN IF cnMatch(leaf.cn) = "" THEN ""
            ELSE IF isValidDeviceId(cnMatch(leaf.cn)) THEN cnMatch(leaf.cn)
            ELSE SHA256Hex(cnMatch(leaf.cn))
       ELSE IF a.receipt.present THEN SHA256Hex(a.receipt.bytes)
       ELSE ""

extractDeviceId(it, a) ==
  CASE it = "v1" -> extractDeviceId_v1(a)
    [] it = "v2" -> extractDeviceId_v2(a)
    [] it = "v3" -> extractDeviceId_v3(a)
    [] OTHER -> extractDeviceId_v4(a)

(***************************************************************************)
(* verifyAttestation: {verified, deviceId, error}, and ran, the stages that *)
(* were executed for the request.                                           *)
(***************************************************************************)
Outcome(verified, deviceId, error, ran) ==
  [verified |-> verified, deviceId |-> deviceId, error |-> error, ran |-> ran]

\* v1 and v2: one try block; every throw gives {verified: false}.
verifyAttestation_v1(it, rootValid, a, c) ==
  IF ~a.decodes THEN Outcome(FALSE, "", "", {"decode"})
  ELSE IF ~isValidAttestationFormat_v1(a)
       THEN Outcome(FALSE, "", "", {"decode", "format"})
  ELSE IF ~verifySignature_v1(it, rootValid, a)
       THEN Outcome(FALSE, "", "", {"decode", "format", "signature"})
  ELSE IF verifyChallenge_v1(a, c) # "true"
       THEN Outcome(FALSE, "", "", {"decode", "format", "signature", "challenge"})
  ELSE LET deviceId == extractDeviceId(it, a)
           all == {"decode", "format", "signature", "challenge", "deviceId"} IN
       IF deviceId = "" THEN Outcome(FALSE, "", "", all)
       ELSE Outcome(TRUE, deviceId, "", all)

\* v3: a throwing signature or challenge check is taken as passed and a
\* throwing extraction yields 'a' x 64; none of the three throws.
verifyAttestation_v3(a, c) ==
  IF ~a.decodes THEN Outcome(FALSE, "", "", {"decode"})
  ELSE IF ~isValidAttestationFormat_v3(a)
       THEN Outcome(FALSE, "", "", {"decode", "format"})
  ELSE IF ~verifySignature_v3(a)
       THEN Outcome(FALSE, "", "", {"decode", "format", "signature"})
  ELSE IF verifyChallenge_v3(a, c) = "false"
       THEN Outcome(FALSE, "", "", {"decode", "format", "signature", "challenge"})
  ELSE LET deviceId == extractDeviceId_v3(a)
           all == {"decode", "format", "signature", "challenge", "deviceId"} IN
       IF deviceId = "" THEN Outcome(FALSE, "", "", all)
       ELSE Outcome(TRUE, deviceId, "", all)

\* v4: each stage has its own error text.
verifyAttestation_v4(rootValid, a, c) ==
  IF ~a.decodes
  THEN Outcome(FALSE, "", "Invalid attestation format: Failed to decode CBOR data",
               {"decode"})
  ELSE IF ~isValidAttestationFormat_v3(a)
  THEN Outcome(FALSE, "", "Invalid attestation format: Missing required fields",
               {"decode", "format"})
  ELSE IF ~verifySignature_v4(rootValid, a)
  THEN Outcome(FALSE, "", "Signature verification failed: Invalid signature",
               {"decode", "format", "signature"})
  ELSE IF verifyChallenge_v4(a, c) # "true"
  THEN Outcome(FALSE, "", "Challenge verification failed: Challenge mismatch",
               {"decode", "format", "signature", "challenge"})
  ELSE LET deviceId == extractDeviceId_v4(a)
           all == {"decode", "format", "signature", "challenge", "deviceId"} IN
       IF deviceId = ""
       THEN Outcome(FALSE, "", "Device ID extraction failed: No valid device ID found", all)
       ELSE Outcome(TRUE, deviceId, "", all)

verifyAttestation(it, rootValid, a, c) ==
  CASE it \in {"v1", "v2"} -> verifyAttestation_v1(it, rootValid, a, c)
    [] it = "v3" -> verifyAttestation_v3(a, c)
    [] OTHER -> verifyAttestation_v4(rootValid, a, c)
(***************************************************************************)
(* DataService, for the type 'verified-devices'.                            *)
(*                                                                          *)
(* A file is [exists, devices]; devices is the parsed JSON object, a set of *)
(* entries [id, verifiedAt] (attestationVerified is always true).  The      *)
(* service state is D = [local, gcs, cache, ttl]: data/verified-devices.json,*)
(* the GCS object, memoryCache['verified-devices'] and cacheTTL.  A cache   *)
(* entry is [present, devices, timestamp].  Time is counted in ticks.       *)
(*                                                                          *)
(* Faults of one call: f = [localRead, localWrite, gcsRead, gcsWrite], true *)
(* when that I/O operation fails (localRead: an error other than ENOENT).   *)
(***************************************************************************)
File(exists, devices) == [exists |-> exists, devices |-> devices]
NoFile == File(FALSE, {})

CacheEntry(present, devices, timestamp) ==
  [present |-> present, devices |-> devices, timestamp |-> timestamp]
NoCacheEntry == CacheEntry(FALSE, {}, 0)

Faults == [localRead : BOOLEAN, localWrite : BOOLEAN, gcsRead : BOOLEAN, gcsWrite : BOOLEAN]
NoFaults == [localRead |-> FALSE, localWrite |-> FALSE, gcsRead |-> FALSE, gcsWrite |-> FALSE]

\* Cache TTL in ticks.  A tick is longer than the 60 s of the update window
\* and shorter than half the time to the next window, which is the TTL
\* outside it.
WindowTTL == 0
OutsideTTL == 2

Ids(devices) == { e.id : e \in devices }

\* A registry that appends a record instead of assigning to a key.
AppendDevice(devices, deviceId, now) ==
  devices \cup {[id |-> deviceId, verifiedAt |-> now]}

\* devices[deviceId] = { verifiedAt: now, attestationVerified: true }
PutDevice(devices, deviceId, now) ==
  { e \in devices : e.id # deviceId } \cup {[id |-> deviceId, verifiedAt |-> now]}

\* updateCacheTTL: sets cacheTTL from the time of day.
updateCacheTTL(D, inWindow) ==
  [D EXCEPT !.ttl = IF inWindow THEN WindowTTL ELSE OutsideTTL]

\* getCachedData: an entry older than cacheTTL is deleted.
getCachedData(D, now) ==
  IF ~D.cache.present THEN [D |-> D, hit |-> FALSE, devices |-> {}]
  ELSE IF now - D.cache.timestamp > D.ttl
       THEN [D |-> [D EXCEPT !.cache = NoCacheEntry], hit |-> FALSE, devices |-> {}]
  ELSE [D |-> D, hit |-> TRUE, devices |-> D.cache.devices]

storeInCache(D, devices, now) ==
  [D EXCEPT !.cache = CacheEntry(TRUE, devices, now)]

\* readDataFromLocal: ENOENT gives {}, any other error is rethrown.
readDataFromLocal(D, f) ==
  IF f.localRead THEN [D |-> D, throws |-> TRUE, devices |-> {}]
  ELSE IF ~D.local.exists THEN [D |-> D, throws |-> FALSE, devices |-> {}]
  ELSE [D |-> D, throws |-> FALSE, devices |-> D.local.devices]

\* cacheDataLocally: a failed write is logged and swallowed.
cacheDataLocally(D, f, devices) ==
  IF f.localWrite THEN D ELSE [D EXCEPT !.local = File(TRUE, devices)]

\* readDataFromGCS without its catch block: an error is thrown to readData.
readDataFromGCSOnly(D, f, inWindow) ==
  LET D1 == updateCacheTTL(D, inWindow) IN
  IF f.gcsRead \/ ~D1.gcs.exists THEN [D |-> D1, throws |-> TRUE, devices |-> {}]
  ELSE [D |-> cacheDataLocally(D1, f, D1.gcs.devices), throws |-> FALSE,
        devices |-> D1.gcs.devices]

\* readDataFromGCS: updateCacheTTL, download, copy to the local file; any
\* error (a missing object included) falls back to readDataFromLocal.
readDataFromGCS(D, f, inWindow) ==
  LET D1 == updateCacheTTL(D, inWindow) IN
  IF f.gcsRead \/ ~D1.gcs.exists THEN readDataFromLocal(D1, f)
  ELSE [D |-> cacheDataLocally(D1, f, D1.gcs.devices), throws |-> FALSE,
        devices |-> D1.gcs.devices]

\* readData: the cached object if any (an empty object is truthy), else a
\* read that is stored in the cache; a throw gives {} and caches nothing.
\* aliased: the returned object is the one the cache holds.
readData(D, gcs, f, inWindow, now) ==
  LET c == getCachedData(D, now) IN
  IF c.hit THEN [D |-> c.D, devices |-> c.devices, aliased |-> TRUE]
  ELSE LET r == IF gcs THEN readDataFromGCS(c.D, f, inWindow)
                ELSE readDataFromLocal(c.D, f) IN
       IF r.throws THEN [D |-> r.D, devices |-> {}, aliased |-> FALSE]
       ELSE [D |-> storeInCache(r.D, r.devices, now), devices |-> r.devices,
             aliased |-> TRUE]

\* writeData('verified-devices', data): the local file first, then GCS when
\* enabled; writeDataToGCS stores a parsed copy in the cache.
writeData(D, gcs, f, devices, now) ==
  IF f.localWrite THEN [D |-> D, throws |-> TRUE]
  ELSE LET D1 == [D EXCEPT !.local = File(TRUE, devices)] IN
       IF ~gcs THEN [D |-> D1, throws |-> FALSE]
       ELSE IF f.gcsWrite THEN [D |-> D1, throws |-> TRUE]
       ELSE [D |-> storeInCache([D1 EXCEPT !.gcs = File(TRUE, devices)], devices, now),
             throws |-> FALSE]

\* A store that starts from an empty object instead of the object read.
storeOnlyDevice(D, gcs, f, inWindow, now, deviceId) ==
  [D |-> writeData(D, gcs, f, PutDevice({}, deviceId, now), now).D, ok |-> TRUE]

\* storeVerifiedDevice: read, set devices[deviceId] on the object read (the
\* cached object when aliased), write.  ok: the value returned.
storeVerifiedDevice(D, gcs, f, inWindow, now, deviceId) ==
  LET r == readData(D, gcs, f, inWindow, now)
      devices == PutDevice(r.devices, deviceId, now)
      D1 == IF r.aliased THEN [r.D EXCEPT !.cache.devices = devices] ELSE r.D
      w == writeData(D1, gcs, f, devices, now) IN
  [D |-> w.D, ok |-> ~w.throws]

\* isDeviceVerified: devices[deviceId]?.attestationVerified === true
isDeviceVerified(D, gcs, f, inWindow, now, deviceId) ==
  LET r == readData(D, gcs, f, inWindow, now) IN
  [D |-> r.D, verified |-> deviceId \in Ids(r.devices)]

\* verifyDataFiles, lines 39-52: without GCS dataService.bucket is undefined
\* and the TypeError is caught; with GCS a failed exists() is caught and a
\* missing object makes writeData('verified-devices', {}) run.
verifyDataFiles(D, gcs, f, now) ==
  IF ~gcs THEN D
  ELSE IF f.gcsRead THEN D
  ELSE IF D.gcs.exists THEN D
  ELSE writeData(D, gcs, f, {}, now).D
(***************************************************************************)
(* Inputs of the model.                                                     *)
(***************************************************************************)

\* Values crypto.randomBytes(32).toString('base64') returns in the model.
ServerChallenges == {"c1", "c2"}

\* Values a client can put in the challenge field of a request body.
ClientChallenges == ServerChallenges \cup {"forged"}

AuthDatas ==
  { NoAuthData, AuthData(TRUE, 40, ShortSlice, FALSE, {}) } \cup
  { AuthData(TRUE, 80, n, p, i) :
      n \in {SHA256("c1"), SHA256(""), JunkNonce},
      p \in BOOLEAN,
      i \in {{}, {Prefix16("kidA")}} }

PipelineReceipts == { r \in Receipts : r.bytes \in {"", "rcptA", "rcptD"} }

\* The attestation Apple would produce for key k in answer to challenge c.
GenuineAttestation(k, c) ==
  Attestation(TRUE, "apple-appattest", TRUE, TRUE, <<GoodLeaf(k), GoodCA>>,
              Receipt(TRUE, "rcptA", "standard", "rcpt64", "tail64"),
              AuthData(TRUE, 80, SHA256(c), TRUE, {Prefix16(k)}), "valid", TRUE)

Undecodable == [GenuineAttestation("kidA", "c1") EXCEPT !.decodes = FALSE]

\* Inputs of the pipeline specification: every combination of chain, receipt,
\* authData, signature and clientDataHash, and the shapes that miss a field.
Attestations ==
  { Attestation(TRUE, "apple-appattest", TRUE, TRUE, ch, r, ad, sg, cdh) :
      ch \in Chains, r \in PipelineReceipts, ad \in AuthDatas,
      sg \in {"absent", "valid", "invalid"}, cdh \in BOOLEAN } \cup
  { [GenuineAttestation("kidA", "c1") EXCEPT !.fmt = fm] : fm \in {"", "none"} } \cup
  { [GenuineAttestation("kidA", "c1") EXCEPT !.attStmt = FALSE, !.authData = ad] :
      ad \in AuthDatas } \cup
  { [GenuineAttestation("kidA", "c1") EXCEPT !.x5c = [present |-> FALSE, certs |-> <<>>],
                                              !.authData = ad] : ad \in AuthDatas } \cup
  { Undecodable }

\* Inputs of the server specification.
ServerAttestations ==
  { GenuineAttestation("kidA", "c1"),
    GenuineAttestation("kidB", "c2"),
    [GenuineAttestation("kidA", "c1") EXCEPT !.sig = "invalid"],
    [GenuineAttestation("kidA", "c1") EXCEPT !.x5c.certs[1].pem = TRUE],
    [GenuineAttestation("kidA", "c1") EXCEPT !.authData.devPattern = FALSE],
    Undecodable }

\* deviceId values a client can send to POST /token.
TokenRequestIds == {"kidA", "kidB", "[object Object]", "unknown"}

\* Last tick of the clock.
MaxClock == 1

(***************************************************************************)
(* State.                                                                   *)
(***************************************************************************)
VARIABLES
  iteration,    \* the deployed iteration of services/appAttest.js
  rootValid,    \* APPLE_ROOT_CA decodes to a certificate
  authRoutes,   \* the deployed iteration of routes/auth.js
  isDev,        \* NODE_ENV === 'development'
  isProd,       \* NODE_ENV === 'production'
  useGCS,       \* USE_GCS === 'true'
  localFile,    \* data/verified-devices.json
  gcsFile,      \* the verified-devices object of the bucket
  memoryCache,  \* memoryCache['verified-devices']
  cacheTTL,     \* DataService.cacheTTL, in ticks
  inUpdateWindow, \* DataService.isInUpdateWindow, as last sampled
  now,          \* the clock, in ticks
  clockInWindow, \* timeUtils.isInUpdateWindow() at this time of day
  timeOfDay,    \* Eastern time in seconds since midnight; -1 in the
                \* specifications that keep clockInWindow only
  timer,        \* minutes until the setInterval callback runs next
  response,     \* the last HTTP response, with what the handler did
  issued,       \* history: the challenges the challenge endpoint has returned
  presented,    \* history: the challenges verification has been called with
  stored,       \* history: ids for which storeVerifiedDevice returned true
  confirmed,    \* history: stored ids that isDeviceVerified has reported true
  attested,     \* history: ids verifyAttestation has returned as verified
  attestation,  \* pipeline specification: the input attestation
  challenge,    \* pipeline specification: the input challenge
  call,         \* pipeline specification: the function applied, "none" before
  result,       \* pipeline specification: what verifyAttestation returned
  bound,        \* pipeline specification: what verifyChallenge returned
  chainValid,   \* what verifyCertificateChain returned, "none" before
  calls,        \* the storeVerifiedDevice calls in flight, by caller
  dsCall        \* the last call made on the DataService directly

deployment == <<iteration, rootValid, authRoutes, isDev, isProd, useGCS>>
registry == <<localFile, gcsFile, memoryCache, cacheTTL, inUpdateWindow>>
history == <<issued, presented, stored, confirmed, attested>>
pipeline == <<attestation, challenge, call, result, bound, chainValid>>
clock == <<now, clockInWindow, timeOfDay, timer>>
service == <<calls, dsCall>>
vars == <<deployment, registry, clock, response, history, pipeline, service>>

DS == [local |-> localFile, gcs |-> gcsFile, cache |-> memoryCache, ttl |-> cacheTTL]

SetDS(D) ==
  /\ localFile' = D.local
  /\ gcsFile' = D.gcs
  /\ memoryCache' = D.cache
  /\ cacheTTL' = D.ttl

\* What a fault-free isDeviceVerified(deviceId) would answer now.
IsRegistered(deviceId) ==
  isDeviceVerified(DS, useGCS, NoFaults, clockInWindow, now, deviceId).verified

NoOutcome == Outcome(FALSE, "", "", {})

\* A response: route, status and the token of the body (tokenIssued, with its
\* deviceId and keyId claims), and what the handler did: the challenge it was
\* given, whether that challenge had been presented before (replay) and had
\* been issued by the server (serverIssued), the outcome of verifyAttestation
\* ("not-run", "verified", "rejected"), the value of storeVerifiedDevice
\* ("not-run", "true", "false") and whether the token's device was
\* registered when the token was signed.
\* A JWT: the key it is signed with, its exp claim (clock ticks) and the
\* deviceId of its payload.  NoToken is the absence of one.
Token(key, exp, deviceId) == [key |-> key, exp |-> exp, deviceId |-> deviceId]
NoToken == Token("", 0, "")

\* An Authorization header: "<scheme> <token>"; NoAuthorization is a request
\* without the header.
Authorization(scheme, token) == [present |-> TRUE, scheme |-> scheme, token |-> token]
NoAuthorization == [present |-> FALSE, scheme |-> "", token |-> NoToken]

\* ran is the set of steps verifyAttestation went through.
\* Of the request: the Authorization header it carried (authorization), the
\* token payload verifyToken attached to it (user, "" when none) and
\* whether the route handler ran (handler).  Of the body: its error text
\* (error, "" when none) and whether it carries the message of a caught
\* exception (details) and its stack (stack); query is the query string of
\* a lottery request, body the payload of its response and maxAge the
\* max-age of its Cache-Control header (0: none set).
Response(route, status) ==
  [route |-> route, status |-> status, tokenIssued |-> FALSE, deviceId |-> "",
   keyId |-> "", challenge |-> "", replay |-> FALSE, serverIssued |-> FALSE,
   attestation |-> "not-run", ran |-> {}, store |-> "not-run", registered |-> FALSE,
   authorization |-> NoAuthorization, user |-> "", handler |-> TRUE,
   error |-> "", details |-> FALSE, stack |-> FALSE, query |-> <<>>,
   body |-> <<>>, maxAge |-> 0]

NoResponse == Response("none", 0)

\* Most storeVerifiedDevice calls in flight at once.
MaxCallers == 2

Callers == 1..MaxCallers

\* A storeVerifiedDevice call in flight: where it is suspended (pc), its
\* argument, the content it downloaded (data) and the JSON text it is
\* writing (json).
Call(pc, deviceId, data, json) ==
  [pc |-> pc, deviceId |-> deviceId, data |-> data, json |-> json]

NoCalls == [i \in Callers |-> Call("idle", "", {}, {})]

\* A direct call: the method, its argument, the value returned and, for
\* storeVerifiedDevice, the records the registry held when it was made.
DsCall(op, deviceId, value, before) ==
  [op |-> op, deviceId |-> deviceId, value |-> value, before |-> before]

NoDsCall == DsCall("none", "", FALSE, {})

(***************************************************************************)
(* Pipeline specification: verifyAttestation and verifyChallenge applied to *)
(* every input of the bounded sets, under every iteration of the service.   *)
(***************************************************************************)
PipelineChallenges == {"c1", "forged", "", Undefined}

\* The server is not used: no request arrives.
InitServerIdle ==
  /\ authRoutes = "registry-routes"
  /\ isDev = FALSE
  /\ isProd = TRUE
  /\ useGCS = FALSE
  /\ localFile = NoFile
  /\ gcsFile = NoFile
  /\ memoryCache = NoCacheEntry
  /\ cacheTTL = OutsideTTL
  /\ inUpdateWindow = FALSE
  /\ now = 0
  /\ timeOfDay = -1
  /\ timer = 0
  /\ clockInWindow = FALSE
  /\ response = NoResponse
  /\ issued = {}
  /\ presented = {}
  /\ stored = {}
  /\ confirmed = {}
  /\ attested = {}
  /\ calls = NoCalls
  /\ dsCall = NoDsCall

\* process.env.APPLE_ROOT_CA: not set, not the base64 of a certificate, or
\* the certificate.
RootCAEnv == {"unset", "malformed", "certificate"}

\* new AppAttestService() (part_003): each failure to load the root is
\* logged and the constructor returns; the service is exported and the
\* server listens whatever it loaded.
Constructor(env) == [started |-> TRUE, rootValid |-> env = "certificate"]

InitPipeline ==
  /\ iteration \in AttestIterations
  /\ \E env \in RootCAEnv :
       /\ Constructor(env).started
       /\ rootValid = Constructor(env).rootValid
  /\ (iteration # "v4" => rootValid)
  /\ attestation \in Attestations
  /\ challenge \in PipelineChallenges
  /\ call = "none"
  /\ result = NoOutcome
  /\ bound = "none"
  /\ chainValid = "none"
  /\ InitServerIdle

CallVerifyAttestation ==
  /\ call = "none"
  /\ call' = "verifyAttestation"
  /\ result' = verifyAttestation(iteration, rootValid, attestation, challenge)
  /\ UNCHANGED <<deployment, registry, clock, response, history, service, attestation,
                 challenge, bound, chainValid>>

\* verifyChallenge is called with a decoded attestation.
CallVerifyChallenge ==
  /\ call = "none"
  /\ attestation.decodes
  /\ call' = "verifyChallenge"
  /\ bound' = verifyChallenge(iteration, attestation, challenge)
  /\ UNCHANGED <<deployment, registry, clock, response, history, service, attestation,
                 challenge, result, chainValid>>

NextPipeline == CallVerifyAttestation \/ CallVerifyChallenge

PipelineSpec == InitPipeline /\ [][NextPipeline]_vars

(***************************************************************************)
(* Properties of the pipeline.                                              *)
(***************************************************************************)

\* v3: the checks of one run that returned false or threw while the run went
\* on: the chain result that verifySignature drops, the crypto.verify that
\* throws, the nonce comparison whose result verifyChallenge drops.
FailedChecks_v3(a, c) ==
  IF ~a.decodes \/ ~isValidAttestationFormat_v3(a) THEN {}
  ELSE (IF ~verifyCertificateChain_v3(a.x5c.certs) THEN {"chain"} ELSE {}) \cup
       (IF cryptoVerifyWithLeafBuffer(a, ~getSignedDataThrows(a)) = "throw"
        THEN {"signature"} ELSE {}) \cup
       (IF c \notin {Undefined, ""} /\ Slice32to64(a.authData) # SHA256(c)
        THEN {"challenge"} ELSE {})

\* v4: the explicit signature check that returned false or threw after the
\* chain had verified.
FailedChecks_v4(rootValid_, a) ==
  IF ~a.decodes \/ ~isValidAttestationFormat_v3(a) THEN {}
  ELSE IF ~verifyCertificateChain_v4(rootValid_, a.x5c.certs) THEN {"chain"}
  ELSE IF explicitSignatureCheck_v4(a) \in {"false", "throw"} THEN {"signature"}
  ELSE {}

\* C1: the pipeline fails closed: when a check of a run (certificate chain,
\* attestation signature, challenge binding, device identifier) returned a
\* failure or threw, verifyAttestation returns verified = false.
C1_FailsClosed ==
  (call = "verifyAttestation" /\ result.verified)
    => /\ iteration = "v3" => FailedChecks_v3(attestation, challenge) = {}
       /\ iteration = "v4" => FailedChecks_v4(rootValid, attestation) = {}

\* bytes 32..64 of authData equal SHA-256(challenge)
NonceMatches(a, c) ==
  /\ a.authData.present
  /\ a.authData.length >= 64
  /\ Slice32to64(a.authData) = SHA256(c)

\* C4: verifyChallenge returns true if and only if bytes 32..64 of authData
\* equal SHA-256(challenge) (iterations of appAttest.js:437 and part_003:616).
C4_BindsIffNonceIsHash ==
  (call = "verifyChallenge" /\ iteration \in {"v2", "v4"})
    => ((bound = "true") <=> NonceMatches(attestation, challenge))

\* C5: an attestation whose nonce differs from SHA-256(challenge) is rejected
\* with the challenge-mismatch outcome, whether or not its chain is valid.
C5_MismatchAlwaysReported ==
  ( /\ call = "verifyAttestation"
    /\ iteration = "v4"
    /\ attestation.decodes
    /\ isValidAttestationFormat_v3(attestation)
    /\ attestation.authData.length >= 64
    /\ ~NonceMatches(attestation, challenge) )
    => /\ ~result.verified
       /\ result.error = "Challenge verification failed: Challenge mismatch"

\* C6: when authData is missing or shorter than 64 bytes, or the challenge is
\* empty or undefined, verifyChallenge does not yield true.
C6_DegenerateInputNeverBinds ==
  ( /\ call = "verifyChallenge"
    /\ \/ ~attestation.authData.present
       \/ attestation.authData.length < 64
       \/ challenge \in {"", Undefined} )
    => bound # "true"

(***************************************************************************)
(* Server specification: the auth routes of one deployment, the registry    *)
(* they use, the clock, the cache refresh timer and process restarts.       *)
(***************************************************************************)
AuthRoutes == {"token-routes", "registry-routes"}

\* new DataService(): an empty cache, cacheTTL and isInUpdateWindow from the
\* time of day; the files are what the disk and the bucket hold.
Construct(local, gcs, inWindow) ==
  updateCacheTTL([local |-> local, gcs |-> gcs, cache |-> NoCacheEntry,
                  ttl |-> OutsideTTL], inWindow)

InitDeployment ==
  /\ iteration \in AttestIterations
  /\ rootValid \in BOOLEAN
  /\ (iteration # "v4" => rootValid)
  /\ authRoutes \in AuthRoutes
  /\ isDev \in BOOLEAN
  /\ isProd \in BOOLEAN
  /\ ~(isDev /\ isProd)
  /\ useGCS \in BOOLEAN
  /\ now = 0
  /\ timeOfDay = -1
  /\ timer = 0
  /\ clockInWindow \in BOOLEAN
  /\ inUpdateWindow = clockInWindow
  /\ LET D == verifyDataFiles(Construct(NoFile, NoFile, clockInWindow),
                              useGCS, NoFaults, 0) IN
       /\ localFile = D.local
       /\ gcsFile = D.gcs
       /\ memoryCache = D.cache
       /\ cacheTTL = D.ttl
  /\ response = NoResponse
  /\ issued = {}
  /\ presented = {}
  /\ stored = {}
  /\ confirmed = {}
  /\ attested = {}
  /\ calls = NoCalls
  /\ dsCall = NoDsCall
  /\ attestation = Undecodable
  /\ challenge = Undefined
  /\ call = "none"
  /\ result = NoOutcome
  /\ bound = "none"
  /\ chainValid = "none"

\* NODE_ENV is 'development' or 'production'.
InitServer ==
  /\ InitDeployment
  /\ isProd = ~isDev
  /\ rootValid
  /\ ~clockInWindow

Verdict(v) == IF v.verified THEN "verified" ELSE "rejected"

\* GET /app-attest-challenge (both iterations of the routes): a random
\* challenge is returned; nothing is recorded by the server.
GetAppAttestChallenge(c) ==
  /\ response' = [Response("/app-attest-challenge", 200) EXCEPT !.challenge = c]
  /\ issued' = issued \cup {c}
  /\ UNCHANGED <<deployment, registry, clock, presented, stored, confirmed,
                 attested, pipeline, service>>

\* req.body.attestation when the field is absent or is not a string, and
\* when it is the empty string.
NotAString == [typeof |-> "undefined"]
EmptyString == [typeof |-> "string", length |-> 0]

\* Buffer.from(attestation, 'base64'): a TypeError for a value that is not
\* a string; the empty buffer, which does not decode, for the empty string.
BufferFrom(a) == IF a = EmptyString THEN Undecodable ELSE a

\* handleError(res, error, message) of routes/auth.js: 500 with the message;
\* outside production also error.message, and in development error.stack.
handleError(r, message) ==
  [r EXCEPT !.status = 500, !.error = message, !.details = ~isProd,
            !.stack = isDev]

\* POST /verify-attestation (routes/auth.js): validateAppAttest runs but
\* validationResult is never read; a verified attestation gets a token for
\* {deviceId, keyId}; an exception is answered by handleError.
PostVerifyAttestation(a, c, keyID) ==
  /\ authRoutes = "token-routes"
  /\ LET v == verifyAttestation(iteration, rootValid, BufferFrom(a), c)
         base == [Response("/verify-attestation", 400)
                    EXCEPT !.challenge = c,
                           !.replay = c \in presented,
                           !.serverIssued = c \in issued] IN
       IF a = NotAString
       THEN /\ response' = handleError(base, "Failed to verify attestation")
            /\ UNCHANGED attested
       ELSE /\ response' = [base EXCEPT !.status = IF v.verified THEN 200 ELSE 400,
                                        !.error = IF v.verified THEN ""
                                                  ELSE "Invalid attestation",
                                        !.attestation = Verdict(v),
                                        !.ran = v.ran,
                                        !.tokenIssued = v.verified,
                                        !.deviceId = v.deviceId,
                                        !.keyId = IF v.verified THEN keyID ELSE "",
                                        !.registered = v.verified /\ IsRegistered(v.deviceId)]
            /\ attested' = IF v.verified THEN attested \cup {v.deviceId} ELSE attested
  /\ presented' = presented \cup {c}
  /\ UNCHANGED <<deployment, registry, clock, issued, stored, confirmed, pipeline, service>>

\* POST /verify (part_001): 400 when validation fails, else isValid = true
\* and a token for {keyId, verified: true}.
PostVerify(valid, keyId) ==
  /\ authRoutes = "registry-routes"
  /\ response' = IF ~valid THEN Response("/verify", 400)
                 ELSE [Response("/verify", 200) EXCEPT !.tokenIssued = TRUE,
                                                       !.keyId = keyId]
  /\ UNCHANGED <<deployment, registry, clock, history, pipeline, service>>

\* POST /verify-app-attest (part_001): in development {verified: true,
\* deviceId: 'dev-device-id'}; else verifyAttestation, then
\* storeVerifiedDevice, whose failure answers 500; an exception is
\* answered 500 with a fixed text.  validationResult is not read here.
PostVerifyAppAttest(a, c, f) ==
  /\ authRoutes = "registry-routes"
  /\ IF isDev
     THEN /\ response' = [Response("/verify-app-attest", 200)
                            EXCEPT !.deviceId = "dev-device-id"]
          /\ UNCHANGED <<registry, history>>
     ELSE LET v == verifyAttestation(iteration, rootValid, BufferFrom(a), c)
              s == storeVerifiedDevice(DS, useGCS, f, clockInWindow, now, v.deviceId)
              received == [Response("/verify-app-attest", 400)
                             EXCEPT !.challenge = c,
                                    !.replay = c \in presented,
                                    !.serverIssued = c \in issued]
              base == [received EXCEPT !.attestation = Verdict(v),
                                       !.ran = v.ran,
                                       !.error = "Invalid attestation"] IN
          /\ presented' = presented \cup {c}
          /\ UNCHANGED <<issued, confirmed, inUpdateWindow>>
          /\ IF a = NotAString
             THEN /\ response' = [received EXCEPT !.status = 500,
                                     !.error = "Failed to verify attestation"]
                  /\ UNCHANGED <<localFile, gcsFile, memoryCache, cacheTTL,
                                 stored, attested>>
             ELSE IF ~v.verified
             THEN /\ response' = base
                  /\ UNCHANGED <<localFile, gcsFile, memoryCache, cacheTTL,
                                 stored, attested>>
             ELSE /\ SetDS(s.D)
                  /\ attested' = attested \cup {v.deviceId}
                  /\ stored' = IF s.ok THEN stored \cup {v.deviceId} ELSE stored
                  /\ response' = [base EXCEPT !.status = IF s.ok THEN 200 ELSE 500,
                                              !.deviceId = IF s.ok THEN v.deviceId ELSE "",
                                              !.store = IF s.ok THEN "true" ELSE "false",
                                              !.error = IF s.ok THEN ""
                                                ELSE "Failed to store device verification"]
  /\ UNCHANGED <<deployment, clock, pipeline, service>>

\* POST /token (part_001): in development a token for 'dev-device-id'; else
\* 401 unless isDeviceVerified(deviceId).
PostToken(deviceId, f) ==
  /\ authRoutes = "registry-routes"
  /\ IF isDev
     THEN /\ response' = [Response("/token", 200)
                            EXCEPT !.tokenIssued = TRUE,
                                   !.deviceId = "dev-device-id",
                                   !.registered = IsRegistered("dev-device-id")]
          /\ UNCHANGED <<registry, history>>
     ELSE LET r == isDeviceVerified(DS, useGCS, f, clockInWindow, now, deviceId) IN
          /\ SetDS(r.D)
          /\ response' = IF r.verified
                         THEN [Response("/token", 200)
                                 EXCEPT !.tokenIssued = TRUE,
                                        !.deviceId = deviceId,
                                        !.registered = TRUE]
                         ELSE Response("/token", 401)
          /\ confirmed' = IF r.verified /\ deviceId \in stored
                          THEN confirmed \cup {deviceId} ELSE confirmed
          /\ UNCHANGED <<inUpdateWindow, issued, presented, stored, attested>>
  /\ UNCHANGED <<deployment, clock, pipeline, service>>

\* GET /dev-token (part_001): the route exists in development only.
GetDevToken ==
  /\ authRoutes = "registry-routes"
  /\ isDev
  /\ response' = [Response("/dev-token", 200)
                    EXCEPT !.tokenIssued = TRUE,
                           !.deviceId = "dev-device-id",
                           !.registered = IsRegistered("dev-device-id")]
  /\ UNCHANGED <<deployment, registry, clock, history, pipeline, service>>

\* Time passes; the time of day may cross a boundary of the update window.
Tick ==
  /\ now < MaxClock
  /\ now' = now + 1
  /\ clockInWindow' \in BOOLEAN
  /\ UNCHANGED <<timeOfDay, timer>>
  /\ UNCHANGED <<deployment, registry, response, history, pipeline, service>>

\* The setInterval callback of setupCacheRefreshSchedule: the window is
\* sampled, cacheTTL is updated, and the whole cache is dropped on entering
\* the window (refreshAllCacheData reloads the lottery types only).
CacheRefreshSchedule ==
  LET wasInUpdateWindow == inUpdateWindow IN
  /\ inUpdateWindow' = clockInWindow
  /\ cacheTTL' = updateCacheTTL(DS, clockInWindow).ttl
  /\ memoryCache' = IF ~wasInUpdateWindow /\ clockInWindow THEN NoCacheEntry
                    ELSE memoryCache
  /\ UNCHANGED <<deployment, localFile, gcsFile, clock, response, history, pipeline, service>>

\* The process restarts: a new DataService over the same files, then
\* verifyDataFiles.
Restart(f) ==
  /\ inUpdateWindow' = clockInWindow
  /\ SetDS(verifyDataFiles(Construct(localFile, gcsFile, clockInWindow), useGCS, f, now))
  /\ UNCHANGED <<deployment, clock, response, history, pipeline, service>>

KeyIds == {"kidA"}

\* The auth routes with storage that does not fail and a clock that stands.
NextServer ==
  \/ \E c \in ServerChallenges : GetAppAttestChallenge(c)
  \/ \E a \in ServerAttestations, c \in ClientChallenges, k \in KeyIds :
       PostVerifyAttestation(a, c, k)
  \/ \E valid \in BOOLEAN, k \in KeyIds : PostVerify(valid, k)
  \/ \E a \in ServerAttestations, c \in ClientChallenges :
       PostVerifyAppAttest(a, c, NoFaults)
  \/ \E d \in TokenRequestIds : PostToken(d, NoFaults)
  \/ GetDevToken

ServerSpec == InitServer /\ [][NextServer]_vars

(***************************************************************************)
(* Registry specification: the production deployment of the registry       *)
(* routes over storage that can fail, with the clock, the cache refresh     *)
(* timer and restarts.                                                      *)
(***************************************************************************)
RegistryAttestations ==
  { GenuineAttestation("kidA", "c1"),
    GenuineAttestation("kidB", "c1"),
    [GenuineAttestation("kidA", "c1") EXCEPT !.authData.devPattern = FALSE] }

RegistryTokenIds == {"kidA", "kidB"}

\* The faults of one call: none, one I/O operation failing, or both reads.
RegistryFaults ==
  { NoFaults,
    [NoFaults EXCEPT !.localRead = TRUE],
    [NoFaults EXCEPT !.localWrite = TRUE],
    [NoFaults EXCEPT !.gcsRead = TRUE],
    [NoFaults EXCEPT !.gcsWrite = TRUE],
    [NoFaults EXCEPT !.gcsRead = TRUE, !.localRead = TRUE] }

InitRegistry ==
  /\ InitDeployment
  /\ iteration = "v4"
  /\ rootValid
  /\ authRoutes = "registry-routes"
  /\ ~isDev
  /\ isProd

\* Without GCS no call reaches the bucket.
FaultsOf(gcs) ==
  IF gcs THEN RegistryFaults
  ELSE { f \in RegistryFaults : ~f.gcsRead /\ ~f.gcsWrite }

NextRegistry ==
  \/ \E a \in RegistryAttestations, f \in FaultsOf(useGCS) :
       PostVerifyAppAttest(a, "c1", f)
  \/ \E d \in RegistryTokenIds, f \in FaultsOf(useGCS) : PostToken(d, f)
  \/ Tick
  \/ CacheRefreshSchedule
  \/ \E f \in FaultsOf(useGCS) : Restart(f)

RegistrySpec == InitRegistry /\ [][NextRegistry]_vars

(***************************************************************************)
(* Properties of the auth routes.                                           *)
(***************************************************************************)

\* The last request was a verification request and it was accepted.
VerificationAccepted ==
  /\ response.route \in {"/verify-attestation", "/verify-app-attest"}
  /\ response.attestation = "verified"

\* C2: once a challenge value has been presented to verification, no later
\* POST /verify-attestation presenting the same value is accepted.
C2_ChallengeNeverAcceptedAgain ==
  ~( /\ response.route = "/verify-attestation"
     /\ response.attestation = "verified"
     /\ response.replay )

\* C3: a verification request succeeds only if the challenge it presents was
\* returned before by GET /app-attest-challenge.
C3_OnlyIssuedChallengesAccepted ==
  VerificationAccepted => response.serverIssued

\* C7: outside development mode a token is issued only in a flow whose
\* attestation reached Verified: by the request that verified it, or for a
\* device identifier that an earlier verification returned.
C7_TokenOnlyAfterVerified ==
  (~isDev /\ response.tokenIssued)
    => \/ response.attestation = "verified"
       \/ response.deviceId \in attested

\* C8: outside development mode a token whose subject is deviceId d is
\* issued only if isDeviceVerified(d) is true when it is issued.
C8_TokenOnlyForRegisteredDevice ==
  (~isDev /\ response.tokenIssued /\ response.deviceId # "")
    => response.registered

(***************************************************************************)
(* Properties of the registry.                                              *)
(***************************************************************************)

\* A POST /verify-app-attest step that did not answer 200.
FailedVerifyAppAttest ==
  /\ \E a \in RegistryAttestations, f \in RegistryFaults :
       PostVerifyAppAttest(a, "c1", f)
  /\ response'.status # 200

\* C9: a verification request that is rejected or fails leaves the
\* verified-devices registry as it was: the local file, the GCS object and
\* the contents of the cached copy (dropping an expired entry aside).
C9_FailedRequestLeavesRegistry ==
  [][ FailedVerifyAppAttest
        => /\ localFile' = localFile
           /\ gcsFile' = gcsFile
           /\ (memoryCache' = memoryCache \/ ~memoryCache'.present) ]_vars

\* C10: once storeVerifiedDevice(d) has returned true and isDeviceVerified(d)
\* has answered true, a read of the registry that meets no storage failure
\* answers true for d in every later state.
C10_RegistrationNeverLost ==
  \A d \in confirmed : IsRegistered(d)

(***************************************************************************)
(* Concurrent storeVerifiedDevice calls.  A call runs without interruption  *)
(* from one completed I/O operation to the start of the next; a file read,  *)
(* a file write, a download and an upload each take effect at once when     *)
(* they complete.  The calls of one request finish within the cache TTL, so *)
(* the clock stands.                                                        *)
(***************************************************************************)

StoreIds == {"kidA", "kidB"}

\* What the registry may hold before the calls: records written at time 0.
StoredBefore == SUBSET { [id |-> d, verifiedAt |-> 0] : d \in StoreIds }

\* A running service: the registry holds X in its files (the bucket object
\* may be missing), the cache is empty or holds X, stored at time 0 or 1.
InitService ==
  /\ iteration = "v4"
  /\ rootValid = TRUE
  /\ authRoutes = "registry-routes"
  /\ isDev = FALSE
  /\ isProd = TRUE
  /\ useGCS \in BOOLEAN
  /\ now = 1
  /\ timeOfDay = -1
  /\ timer = 0
  /\ clockInWindow \in BOOLEAN
  /\ inUpdateWindow = clockInWindow
  /\ \E X \in StoredBefore, inBucket \in BOOLEAN :
       /\ localFile = File(TRUE, X)
       /\ gcsFile = IF useGCS /\ inBucket THEN File(TRUE, X) ELSE NoFile
       /\ memoryCache \in { NoCacheEntry, CacheEntry(TRUE, X, 0), CacheEntry(TRUE, X, 1) }
  /\ cacheTTL = Construct(localFile, gcsFile, clockInWindow).ttl
  /\ response = NoResponse
  /\ issued = {}
  /\ presented = {}
  /\ stored = {}
  /\ confirmed = {}
  /\ attested = {}
  /\ calls = NoCalls
  /\ dsCall = NoDsCall
  /\ attestation = Undecodable
  /\ challenge = Undefined
  /\ call = "none"
  /\ result = NoOutcome
  /\ bound = "none"
  /\ chainValid = "none"

\* The call's steps from the object readData returns to the start of the
\* local write: storeInCache, devices[deviceId] = ..., JSON.stringify.
Mutate(D, i, devices) ==
  LET updated == PutDevice(devices, calls[i].deviceId, now) IN
  /\ SetDS(storeInCache(D, updated, now))
  /\ calls' = [calls EXCEPT ![i] = Call("writeLocal", calls[i].deviceId, {}, updated)]

\* storeVerifiedDevice(deviceId) is called: on a cache hit the cached object
\* is changed and the write starts; on a miss the read starts (with GCS,
\* after updateCacheTTL).
StoreBegin(i, deviceId) ==
  /\ calls[i].pc = "idle"
  /\ LET c == getCachedData(DS, now) IN
     IF c.hit
     THEN LET updated == PutDevice(c.devices, deviceId, now) IN
          /\ SetDS([c.D EXCEPT !.cache.devices = updated])
          /\ calls' = [calls EXCEPT ![i] = Call("writeLocal", deviceId, {}, updated)]
     ELSE /\ SetDS(IF useGCS THEN updateCacheTTL(c.D, clockInWindow) ELSE c.D)
          /\ calls' = [calls EXCEPT ![i] =
                         Call(IF useGCS THEN "download" ELSE "readLocal", deviceId, {}, {})]
  /\ UNCHANGED <<deployment, inUpdateWindow, clock, response, history, pipeline, dsCall>>

\* fs.readFile of readDataFromLocal completes.
ReadLocalDone(i) ==
  /\ calls[i].pc = "readLocal"
  /\ Mutate(DS, i, readDataFromLocal(DS, NoFaults).devices)
  /\ UNCHANGED <<deployment, inUpdateWindow, clock, response, history, pipeline, dsCall>>

\* file.download of readDataFromGCS completes: with the content, or with an
\* error for a missing object, which starts the local read.
DownloadDone(i) ==
  /\ calls[i].pc = "download"
  /\ calls' = [calls EXCEPT ![i] =
                 IF gcsFile.exists
                 THEN Call("cacheLocally", calls[i].deviceId, gcsFile.devices, {})
                 ELSE Call("readLocal", calls[i].deviceId, {}, {})]
  /\ UNCHANGED <<deployment, registry, clock, response, history, pipeline, dsCall>>

\* fs.writeFile of cacheDataLocally completes.
CacheLocallyDone(i) ==
  /\ calls[i].pc = "cacheLocally"
  /\ Mutate(cacheDataLocally(DS, NoFaults, calls[i].data), i, calls[i].data)
  /\ UNCHANGED <<deployment, inUpdateWindow, clock, response, history, pipeline, dsCall>>

\* fs.writeFile of writeDataToLocal completes; without GCS the call returns
\* true.
WriteLocalDone(i) ==
  /\ calls[i].pc = "writeLocal"
  /\ localFile' = File(TRUE, calls[i].json)
  /\ calls' = [calls EXCEPT ![i].pc = IF useGCS THEN "upload" ELSE "done"]
  /\ stored' = IF useGCS THEN stored ELSE stored \cup {calls[i].deviceId}
  /\ UNCHANGED <<deployment, gcsFile, memoryCache, cacheTTL, inUpdateWindow, clock,
                 response, issued, presented, confirmed, attested, pipeline, dsCall>>

\* file.save of writeDataToGCS completes: a parsed copy of the text is
\* cached and the call returns true.
UploadDone(i) ==
  /\ calls[i].pc = "upload"
  /\ gcsFile' = File(TRUE, calls[i].json)
  /\ memoryCache' = CacheEntry(TRUE, calls[i].json, now)
  /\ calls' = [calls EXCEPT ![i].pc = "done"]
  /\ stored' = stored \cup {calls[i].deviceId}
  /\ UNCHANGED <<deployment, localFile, cacheTTL, inUpdateWindow, clock,
                 response, issued, presented, confirmed, attested, pipeline, dsCall>>

NextConcurrency ==
  \/ \E i \in Callers, d \in StoreIds : StoreBegin(i, d)
  \/ \E i \in Callers : ReadLocalDone(i)
  \/ \E i \in Callers : DownloadDone(i)
  \/ \E i \in Callers : CacheLocallyDone(i)
  \/ \E i \in Callers : WriteLocalDone(i)
  \/ \E i \in Callers : UploadDone(i)

ConcurrencySpec == InitService /\ [][NextConcurrency]_vars

\* The records the registry holds for deviceId, as a fault-free read sees
\* them.
RecordsOf(deviceId) ==
  { e \in readData(DS, useGCS, NoFaults, clockInWindow, now).devices : e.id = deviceId }

\* Every call that has begun is a call for deviceId.
OnlyCallsFor(deviceId) ==
  \A i \in Callers : calls[i].pc # "idle" => calls[i].deviceId = deviceId

AllDone == \A i \in Callers : calls[i].pc = "done"

\* Once the calls, all for deviceId, have returned, the registry holds
\* exactly one record for it in the local file, in the bucket object when
\* GCS is used, and as a read sees it.
OneRecordWhenDone(deviceId) ==
  (AllDone /\ OnlyCallsFor(deviceId))
    => /\ Cardinality(RecordsOf(deviceId)) = 1
       /\ Cardinality({ e \in localFile.devices : e.id = deviceId }) = 1
       /\ useGCS => Cardinality({ e \in gcsFile.devices : e.id = deviceId }) = 1

Registry == readData(DS, useGCS, NoFaults, clockInWindow, now).devices

\* await dataService.storeVerifiedDevice(deviceId), under the faults f.
DirectStoreWith(deviceId, f) ==
  LET s == storeVerifiedDevice(DS, useGCS, f, clockInWindow, now, deviceId) IN
  /\ SetDS(s.D)
  /\ dsCall' = DsCall("storeVerifiedDevice", deviceId, s.ok, Registry)
  /\ stored' = IF s.ok THEN stored \cup {deviceId} ELSE stored
  /\ UNCHANGED <<deployment, inUpdateWindow, clock, response, issued, presented,
                 confirmed, attested, pipeline, calls>>

DirectStore(deviceId) == DirectStoreWith(deviceId, NoFaults)

\* await dataService.isDeviceVerified(deviceId)
DirectIsVerified(deviceId) ==
  LET r == isDeviceVerified(DS, useGCS, NoFaults, clockInWindow, now, deviceId) IN
  /\ SetDS(r.D)
  /\ dsCall' = DsCall("isDeviceVerified", deviceId, r.verified, Registry)
  /\ UNCHANGED <<deployment, inUpdateWindow, clock, response, history, pipeline, calls>>

NextStore ==
  \/ \E d \in StoreIds : DirectStore(d)
  \/ \E d \in StoreIds : DirectIsVerified(d)
  \/ Tick
  \/ CacheRefreshSchedule

StoreSpec == InitRegistry /\ [][NextStore]_vars

\* C12: when storeVerifiedDevice(d) is called again after a
\* storeVerifiedDevice(d) that returned true, the registry then holds
\* exactly one record for d, the records of the other devices are the ones
\* it held before the first of the two calls, and isDeviceVerified(d) is
\* true after the first call and after the second.
C12_StoreTwiceIsStoreOnce ==
  [][ \A d \in StoreIds :
        ( /\ DirectStore(d)
          /\ dsCall = DsCall("storeVerifiedDevice", d, TRUE, dsCall.before) )
        => /\ Cardinality({ e \in Registry' : e.id = d }) = 1
           /\ { e \in Registry' : e.id # d } = { e \in dsCall.before : e.id # d }
           /\ IsRegistered(d)
           /\ IsRegistered(d)'
           /\ dsCall'.value ]_vars

\* storeVerifiedDevice("kidA") has been called twice in a row, at different
\* times, on a registry that held a record for kidB.
C12_Witness ==
  /\ dsCall.op = "storeVerifiedDevice"
  /\ dsCall.deviceId = "kidA"
  /\ [id |-> "kidA", verifiedAt |-> 0] \in dsCall.before
  /\ [id |-> "kidB", verifiedAt |-> 0] \in dsCall.before
  /\ [id |-> "kidA", verifiedAt |-> 1] \in localFile.devices

(***************************************************************************)
(* Certificate chains: verifyCertificateChain, and verifyAttestation as its *)
(* caller, over every chain of the model.                                   *)
(***************************************************************************)

\* An expired leaf that the root signed directly.
ExpiredRootSignedLeaf ==
  [GoodLeaf("kidA") EXCEPT !.signer = "rootKey", !.inWindow = FALSE]

\* Attestations that differ from a genuine one in the chain only.
ChainAttestations ==
  { [GenuineAttestation("kidA", "c1") EXCEPT !.x5c.certs = ch] :
      ch \in Chains \cup {<<ExpiredRootSignedLeaf>>} }

InitChain ==
  /\ iteration \in AttestIterations
  /\ rootValid \in BOOLEAN
  /\ (iteration # "v4" => rootValid)
  /\ attestation \in ChainAttestations
  /\ challenge = "c1"
  /\ call = "none"
  /\ result = NoOutcome
  /\ bound = "none"
  /\ chainValid = "none"
  /\ InitServerIdle

\* verifyCertificateChain(attestation.attStmt.x5c)
CallVerifyCertificateChain ==
  /\ call = "none"
  /\ call' = "verifyCertificateChain"
  /\ chainValid' = IF verifyCertificateChain(iteration, rootValid, attestation.x5c.certs)
                   THEN "true" ELSE "false"
  /\ UNCHANGED <<deployment, registry, clock, response, history, service, attestation,
                 challenge, result, bound>>

NextChain == CallVerifyCertificateChain \/ CallVerifyAttestation

ChainSpec == InitChain /\ [][NextChain]_vars

\* The chain verifyCertificateChain was given.
certChain == attestation.x5c.certs

\* C13: in the iterations of part_002 and part_003, verifyCertificateChain
\* returns true only if every certificate that has a successor is inside
\* its validity window and signed with the successor's key, the last
\* certificate is signed with the key of the configured root, and the
\* leaf's issuer names the Apple App Attestation CA.
C13_ChainTrueOnlyIfEveryLinkHolds ==
  (iteration \in {"v3", "v4"} /\ chainValid = "true")
    => /\ Len(certChain) > 0
       /\ \A i \in 1..(Len(certChain) - 1) :
            /\ certChain[i].parses
            /\ certChain[i].inWindow
            /\ certChain[i].signer = certChain[i + 1].key
       /\ rootValid
       /\ certChain[Len(certChain)].parses
       /\ certChain[Len(certChain)].signer = RootCert(rootValid).key
       /\ IssuerIncludesAAA(certChain[1].issuer)

\* C14: in the iteration of part_003, whenever verifyCertificateChain
\* returns true every certificate of the chain, the last one and the leaf
\* of a one-certificate chain included, is inside its validity window, and
\* no attestation with an expired leaf certificate is verified.
C14_ChainTrueOnlyIfNoneExpired ==
  iteration = "v4"
    => /\ chainValid = "true"
          => \A i \in 1..Len(certChain) : certChain[i].parses /\ certChain[i].inWindow
       /\ (call = "verifyAttestation" /\ result.verified)
          => (Len(certChain) > 0 /\ certChain[1].inWindow)

\* C15: in the iteration of part_003, verifyCertificateChain returns false
\* for an empty chain, an unloadable root, and a chain with a certificate
\* that does not parse, is expired, or is not signed by its successor (the
\* last one: by the root); and verifyAttestation rejects every attestation
\* whose chain it returns false for.
C15_BrokenChainIsFalseAndRejected ==
  iteration = "v4"
    => /\ ( /\ call = "verifyCertificateChain"
            /\ \/ Len(certChain) = 0
               \/ ~rootValid
               \/ \E i \in 1..Len(certChain) :
                    \/ ~certChain[i].parses
                    \/ ~certChain[i].inWindow
                    \/ certChain[i].signer #
                         (IF i < Len(certChain) THEN certChain[i + 1].key
                          ELSE RootCert(rootValid).key) )
          => chainValid = "false"
       /\ ( /\ call = "verifyAttestation"
            /\ ~verifyCertificateChain(iteration, rootValid, certChain) )
          => ~result.verified

(***************************************************************************)
(* Properties of verifyAttestation and of the deviceId it returns.          *)
(***************************************************************************)

\* C16: in the iteration of part_003 with a loadable root, verifyAttestation
\* answers verified=true for every attestation that is genuine for the
\* challenge it is verified against (well formed, chain rooted in the
\* configured root, bytes 32..64 of authData equal to SHA-256(challenge)),
\* whatever the other bytes of its authData are.
C16_GenuineAttestationIsVerified ==
  ( /\ iteration = "v4"
    /\ rootValid
    /\ call = "verifyAttestation"
    /\ \E k \in Hex64KeyIds :
         attestation =
           [GenuineAttestation(k, challenge)
              EXCEPT !.authData.devPattern = attestation.authData.devPattern,
                     !.authData.includes = attestation.authData.includes]
    /\ NonceMatches(attestation, challenge) )
  => result.verified

\* Subject CNs of the leaf: 64-digit key identifiers in lower and in upper
\* case, a hex digest, shorter and suffixed hexadecimal CNs, and no CN.
LeafCNs ==
  Hex64KeyIds \cup {UpperKeyId, SHA256Hex(ShortHexKeyId), ShortHexKeyId, SuffixedKeyId, ""}

\* Attestations that differ from a genuine one in the leaf's CN, in whether
\* the leaf parses, and in the receipt; authData names the leaf's key.
DeviceIdAttestations ==
  { [GenuineAttestation("kidA", "c1")
       EXCEPT !.x5c.certs[1].cn = cn,
              !.x5c.certs[1].parses = ps,
              !.receipt = r,
              !.authData.includes = {Prefix16(cnMatch(cn))}] :
      cn \in LeafCNs, ps \in BOOLEAN, r \in Receipts }

InitDeviceId ==
  /\ iteration \in AttestIterations
  /\ rootValid = TRUE
  /\ attestation \in DeviceIdAttestations
  /\ challenge = "c1"
  /\ call = "none"
  /\ result = NoOutcome
  /\ bound = "none"
  /\ chainValid = "none"
  /\ InitServerIdle

\* extractDeviceId is reached through verifyAttestation and verifyChallenge
\* reads the same CN.
NextDeviceId == CallVerifyAttestation \/ CallVerifyChallenge

DeviceIdSpec == InitDeviceId /\ [][NextDeviceId]_vars

\* The subject CN of the attestation's leaf certificate.
LeafCN(a) == a.x5c.certs[1].cn

\* C17: in the iterations of part_002 and part_003, an attestation of the
\* same key (the same certificate chain) that carries another receipt, when
\* verified, yields the deviceId this verification yielded, as does a
\* second verification of the same attestation.
C17_SameKeySameDeviceId ==
  (iteration \in {"v3", "v4"} /\ call = "verifyAttestation" /\ result.verified)
    => \A r \in Receipts :
         LET o == verifyAttestation(iteration, rootValid,
                                    [attestation EXCEPT !.receipt = r], challenge) IN
         o.verified => o.deviceId = result.deviceId

\* C18 as stated: in the iteration of part_003, no attestation whose leaf
\* certificate carries another subject CN yields the deviceId that a
\* verified attestation yielded.
C18_DifferentCNDifferentDeviceId ==
  (iteration = "v4" /\ call = "verifyAttestation" /\ result.verified)
    => \A b \in DeviceIdAttestations :
         (b.x5c.certs[1].parses /\ LeafCN(b) # LeafCN(attestation))
           => extractDeviceId(iteration, b) # result.deviceId

\* C18: in the iteration of part_003, when the leaf certificates of two
\* attestations carry different key identifiers of 64 lower-case
\* hexadecimal digits, the deviceId of the one is never the deviceId that
\* the verification of the other yielded.
C18_DifferentKeyIdDifferentDeviceId ==
  ( /\ iteration = "v4"
    /\ call = "verifyAttestation"
    /\ result.verified
    /\ LeafCN(attestation) \in Hex64KeyIds )
    => \A b \in DeviceIdAttestations :
         ( /\ b.x5c.certs[1].parses
           /\ LeafCN(b) \in Hex64KeyIds
           /\ LeafCN(b) # LeafCN(attestation) )
           => extractDeviceId(iteration, b) # result.deviceId

\* An attestation whose leaf carries the 64-digit key identifier "kidB" has
\* been verified and its deviceId is that identifier.
C18_Witness ==
  /\ iteration = "v4"
  /\ call = "verifyAttestation"
  /\ result.verified
  /\ LeafCN(attestation) = "kidB"
  /\ result.deviceId = "kidB"

\* Identifiers that are constants of the code or fresh random bytes:
\* 'device-id-from-receipt', 'dummy'.repeat(16), 'asn1'.repeat(16),
\* crypto.randomBytes(32), and the text of an object.
Placeholders ==
  {"device-id-from-receipt", "dummydummydummy", "asn1asn1asn1asn1", "random",
   "[object Object]"}

\* C19: no verification returns a deviceId that is a constant of the code
\* or random bytes; the deviceId is derived from the attestation or the
\* result is a failure.
C19_NoPlaceholderDeviceId ==
  call = "verifyAttestation" => result.deviceId \notin Placeholders

\* C20: in the iterations of part_002 and part_003, the deviceId of every
\* result with verified=true is 64 hexadecimal digits.
C20_VerifiedDeviceIdIs64Hex ==
  (iteration \in {"v3", "v4"} /\ call = "verifyAttestation" /\ result.verified)
    => isValidDeviceId(result.deviceId)

(***************************************************************************)
(* Properties of shape validation.                                          *)
(***************************************************************************)

\* C21: an attestation that decodes and whose fmt is not 'apple-appattest'
\* or whose certificate chain is empty is rejected, and verifyAttestation
\* runs no signature, chain, challenge or deviceId step for it.
C21_ShapeFailureStopsThePipeline ==
  ( /\ call = "verifyAttestation"
    /\ attestation.decodes
    /\ \/ attestation.fmt # "apple-appattest"
       \/ Len(attestation.x5c.certs) = 0 )
  => /\ ~result.verified
     /\ result.ran \cap {"signature", "challenge", "deviceId"} = {}

\* The iteration of part_003 has rejected an attestation with another fmt,
\* and one with an empty chain, after the format step.
C21_Witness ==
  /\ iteration = "v4"
  /\ call = "verifyAttestation"
  /\ attestation.decodes
  /\ \/ attestation.fmt = "none"
     \/ attestation.fmt = "apple-appattest" /\ attestation.x5c.present
          /\ Len(attestation.x5c.certs) = 0 /\ attestation.attStmt
  /\ result.ran = {"decode", "format"}

\* A genuine attestation with one required field taken away, by field.
MissingOne ==
  [ fmt |-> [GenuineAttestation("kidA", "c1") EXCEPT !.fmt = ""],
    x5c |-> [GenuineAttestation("kidA", "c1") EXCEPT !.x5c.certs = <<>>],
    receipt |-> [GenuineAttestation("kidA", "c1") EXCEPT !.receipt = NoReceipt],
    authData |-> [GenuineAttestation("kidA", "c1") EXCEPT !.authData = NoAuthData],
    clientDataHash |-> [GenuineAttestation("kidA", "c1") EXCEPT !.clientDataHash = FALSE] ]

\* C22: in the iteration of part_003, a decoded attestation in which the
\* format tag, the certificate chain, the receipt, authData or
\* clientDataHash is absent or empty is rejected by the format step, and
\* the error of an attestation that misses one field differs from the error
\* of an attestation that misses another.
C22_MissingFieldRejectedAndNamed ==
  (iteration = "v4" /\ call = "verifyAttestation" /\ attestation.decodes)
  => /\ ( \/ attestation.fmt = ""
          \/ ~attestation.x5c.present
          \/ Len(attestation.x5c.certs) = 0
          \/ ~attestation.receipt.present
          \/ ~attestation.authData.present
          \/ ~attestation.clientDataHash )
        => (~result.verified /\ result.ran = {"decode", "format"})
     /\ \A f, g \in DOMAIN MissingOne :
          (attestation = MissingOne[f] /\ f # g)
            => verifyAttestation(iteration, rootValid, MissingOne[g], challenge).error
                 # result.error
(***************************************************************************)
(* The API: index.js mounts /api/lottery, /api/stats and /api/auth and      *)
(* answers GET / itself; the lottery and stats routes run verifyToken and   *)
(* validateLotteryType before their handlers.                               *)
(***************************************************************************)
\* jwt.verify(token, process.env.JWT_SECRET): the token is signed with the
\* secret and the clock has not reached its exp claim.
jwtVerify(token, t) == token.key = "JWT_SECRET" /\ t < token.exp

\* jwt.decode(token): the payload is read, nothing is verified.
jwtDecodeOnly(h, t) ==
  LET token == IF h.present THEN h.token ELSE NoToken IN
  IF token = NoToken
  THEN [next |-> FALSE, status |-> 401, error |-> "No token provided", user |-> ""]
  ELSE [next |-> TRUE, status |-> 0, error |-> "", user |-> token.deviceId]

\* verifyToken (middleware/auth.js): the second word of the Authorization
\* header is the token, whatever the first word is; 401 without it or when
\* jwt.verify throws; else req.user = decoded and next().
verifyToken(h, t) ==
  LET token == IF h.present THEN h.token ELSE NoToken IN
  IF token = NoToken
  THEN [next |-> FALSE, status |-> 401, error |-> "No token provided", user |-> ""]
  ELSE IF jwtVerify(token, t)
  THEN [next |-> TRUE, status |-> 0, error |-> "", user |-> token.deviceId]
  ELSE [next |-> FALSE, status |-> 401, error |-> "Invalid token", user |-> ""]

\* validateLotteryType (middleware/auth.js)
validateLotteryType(type) == type \in {"mega-millions", "powerball"}

\* Tokens a client can hold: issued by this server for a registered or an
\* unregistered device, about to expire or not, or signed with another key.
Tokens ==
  { Token(k, e, d) : k \in {"JWT_SECRET", "otherKey"}, e \in {1, MaxClock + 1},
                     d \in {"kidA", "unknown"} }

Authorizations ==
  {NoAuthorization, Authorization("Bearer", NoToken),
   Authorization("Basic", Token("JWT_SECRET", MaxClock + 1, "kidA"))} \cup
  { Authorization("Bearer", tk) : tk \in Tokens }

ProtectedRoutes == {"/api/lottery", "/api/stats"}

\* GET / (index.js): the health check, answered without any middleware.
GetRoot(h) ==
  /\ response' = [Response("/", 200) EXCEPT !.authorization = h]
  /\ UNCHANGED <<deployment, registry, clock, history, pipeline, service>>

\* GET /api/lottery and GET /api/stats: verifyToken, validateLotteryType,
\* then the handler, which answers 500 when the data service throws.
GetProtected(route, h, type, throws) ==
  LET vt == verifyToken(h, now)
      r == [Response(route, 200) EXCEPT !.authorization = h, !.user = vt.user] IN
  /\ response' =
       IF ~vt.next
       THEN [r EXCEPT !.status = vt.status, !.error = vt.error, !.handler = FALSE]
       ELSE IF ~validateLotteryType(type)
       THEN [r EXCEPT !.status = 400, !.error = "Invalid lottery type",
                      !.handler = FALSE]
       ELSE IF throws
       THEN [r EXCEPT !.status = 500, !.error = "Failed to retrieve"]
       ELSE r
  /\ UNCHANGED <<deployment, registry, clock, history, pipeline, service>>

\* Request bodies of the verification endpoints.
ApiAttestations ==
  { NotAString, EmptyString, Undecodable, GenuineAttestation("kidA", "c1"),
    [GenuineAttestation("kidA", "c1") EXCEPT !.authData.devPattern = FALSE] }

InitApi ==
  /\ InitDeployment
  /\ iteration = "v4"
  /\ rootValid
  /\ ~useGCS
  /\ ~clockInWindow

NextApi ==
  \/ \E h \in Authorizations : GetRoot(h)
  \/ \E route \in ProtectedRoutes, h \in Authorizations,
         type \in {"powerball", "lotto"}, throws \in BOOLEAN :
       GetProtected(route, h, type, throws)
  \/ GetAppAttestChallenge("c1")
  \/ \E a \in ApiAttestations, c \in {"c1", Undefined}, k \in {"kidA", Undefined} :
       PostVerifyAttestation(a, c, k)
  \/ \E valid \in BOOLEAN : PostVerify(valid, "kidA")
  \/ \E a \in ApiAttestations, c \in {"c1", Undefined} :
       PostVerifyAppAttest(a, c, NoFaults)
  \/ \E d \in {"kidA", "unknown"} : PostToken(d, NoFaults)
  \/ GetDevToken
  \/ Tick

ApiSpec == InitApi /\ [][NextApi]_vars

\* The token a request presents: the second word of its header.
Presented(r) == IF r.authorization.present THEN r.authorization.token ELSE NoToken

C24_NoSuccessWithoutValidToken ==
  [][ (response'.status = 200 /\ now' = now) =>
        LET tk == Presented(response') IN
        tk.key = "JWT_SECRET" /\ now < tk.exp ]_vars

\* C25: the verification endpoint never gives a malformed request (the
\* container does not decode, or a required field is missing) the status
\* and body it gives a well-formed request that fails a later step (chain,
\* challenge, receipt).
C25_FailureClassesDistinguishable ==
  [][ ( /\ response.attestation = "rejected"
        /\ response.ran \subseteq {"decode", "format"}
        /\ response'.attestation = "rejected"
        /\ ~(response'.ran \subseteq {"decode", "format"})
        /\ response'.route = response.route )
      => <<response'.status, response'.error, response'.details, response'.stack>>
           # <<response.status, response.error, response.details, response.stack>> ]_vars

\* C26: whatever the outcome and whatever NODE_ENV is, no response of the
\* auth endpoints carries the message or the stack of an exception.
C26_NoDiagnosticDetailInResponses ==
  response.route \in {"/app-attest-challenge", "/verify-attestation", "/verify",
                      "/verify-app-attest", "/token", "/dev-token"}
    => ~response.details /\ ~response.stack

\* C27: the service starts only with a valid trusted root: verifyAttestation
\* is never called on a service whose root does not load.
C27_NoVerificationWithoutValidRoot ==
  call = "verifyAttestation" => rootValid

\* C28: a POST to the verification endpoint whose attestation, challenge or
\* keyID is missing, empty or not a string is answered with a 4xx status,
\* without verifyAttestation being called, without a 500 and without a token.
C28_InvalidBodyRejectedBeforeVerification ==
  [][ ( \E a \in ApiAttestations, c \in {"c1", Undefined}, k \in {"kidA", Undefined} :
          /\ a \in {NotAString, EmptyString} \/ c = Undefined \/ k = Undefined
          /\ \/ PostVerifyAttestation(a, c, k)
             \/ ~isDev /\ PostVerifyAppAttest(a, c, NoFaults) )
      => /\ response'.status \in 400..499
         /\ response'.attestation = "not-run"
         /\ ~response'.tokenIssued ]_vars

(***************************************************************************)
(* The data service under direct calls: readData, storeVerifiedDevice and   *)
(* isDeviceVerified, with I/O operations that may fail.                     *)
(***************************************************************************)
\* await dataService.readData('verified-devices'), under the faults f: a
\* value is returned whatever fails.  The call is recorded with its faults
\* and with whether the cache answered it.
DirectRead(f) ==
  LET r == readData(DS, useGCS, f, clockInWindow, now) IN
  /\ SetDS(r.D)
  /\ dsCall' = [op |-> "readData", deviceId |-> "", value |-> r.devices,
                before |-> Registry, faults |-> f,
                hit |-> getCachedData(DS, now).hit]
  /\ UNCHANGED <<deployment, inUpdateWindow, clock, response, history, pipeline, calls>>

NextData ==
  \/ \E d \in StoreIds, f \in FaultsOf(useGCS) : DirectStoreWith(d, f)
  \/ \E d \in StoreIds : DirectIsVerified(d)
  \/ \E f \in FaultsOf(useGCS) : DirectRead(f)
  \/ Tick
  \/ CacheRefreshSchedule

DataSpec == InitRegistry /\ [][NextData]_vars

\* C29: readData always returns a value; when nothing is cached and the read
\* from GCS fails (the download fails or the object is missing), the value
\* is the content of the local file, and it is the empty object only when
\* the local file is missing or cannot be read.
C29_ReadFallsBackToLocalFile ==
  [][ \A f \in FaultsOf(useGCS) :
        ( /\ DirectRead(f)
          /\ useGCS
          /\ ~getCachedData(DS, now).hit
          /\ f.gcsRead \/ ~gcsFile.exists )
        => /\ dsCall'.op = "readData"
           /\ dsCall'.value = IF localFile.exists /\ ~f.localRead
                               THEN localFile.devices ELSE {} ]_vars

\* readData has returned the records of the local file after the GCS read
\* failed.
C29_Witness ==
  /\ useGCS
  /\ dsCall.op = "readData"
  /\ ~dsCall.hit
  /\ dsCall.faults.gcsRead
  /\ ~dsCall.faults.localRead
  /\ dsCall.value # {}
  /\ dsCall.value = localFile.devices

\* C30: when storeVerifiedDevice(d) returns false for a device d that
\* isDeviceVerified(d) did not report before, isDeviceVerified(d) is false
\* after the call too, whether it reads the files or the cache.
C30_FailedStoreLeavesDeviceUnregistered ==
  [][ \A d \in StoreIds, f \in FaultsOf(useGCS) :
        ( /\ DirectStoreWith(d, f)
          /\ ~dsCall'.value
          /\ ~IsRegistered(d) )
        => ~IsRegistered(d)' ]_vars

\* C31: once concurrent storeVerifiedDevice calls for two different device
\* ids have both returned true, whatever the interleaving of their read,
\* update and write steps, the local file, the bucket object when GCS is
\* used, and the cache hold a record for each of the two ids.
C31_DifferentIdCallsLoseNoUpdate ==
  ( /\ AllDone
    /\ \E i, j \in Callers : calls[i].deviceId # calls[j].deviceId )
  => LET ids == { calls[i].deviceId : i \in Callers } IN
     /\ ids \subseteq Ids(localFile.devices)
     /\ useGCS => ids \subseteq Ids(gcsFile.devices)
     /\ memoryCache.present => ids \subseteq Ids(memoryCache.devices)

(***************************************************************************)
(* writeData(type, data) for every type.                                    *)
(***************************************************************************)
lotteryTypes == {"mega-millions", "powerball"}

\* Names a caller can pass as type; those of the second set end with
\* '-stats'.
WriteTypes ==
  {"verified-devices", "mega-millions", "powerball", "sessions"} \cup
  {"mega-millions-stats", "powerball-stats", "sessions-stats"}

endsWithStats(type) ==
  type \in {"mega-millions-stats", "powerball-stats", "sessions-stats"}

\* The guard of writeData:
\* type !== 'verified-devices' && this.lotteryTypes.includes(type) ||
\* type.endsWith('-stats')
writeRefused(type) ==
  (type # "verified-devices" /\ type \in lotteryTypes) \/ endsWithStats(type)

\* await dataService.writeData(type, data), under the faults f.  The call is
\* recorded with whether it threw and with the files it wrote: the local
\* file of the type, then the bucket object when GCS is used.  Only the
\* files of 'verified-devices' are part of the state.
DirectWrite(type, data, f) ==
  LET w == writeData(DS, useGCS, f, data, now)
      written == IF writeRefused(type) \/ f.localWrite THEN {}
                 ELSE IF useGCS /\ ~f.gcsWrite THEN {"local", "gcs"}
                 ELSE {"local"}
      threw == writeRefused(type) \/ f.localWrite \/ (useGCS /\ f.gcsWrite) IN
  /\ dsCall' = [op |-> "writeData", type |-> type, threw |-> threw,
                written |-> written, faults |-> f]
  /\ IF type = "verified-devices" /\ ~writeRefused(type)
     THEN SetDS(w.D)
     ELSE UNCHANGED <<localFile, gcsFile, memoryCache, cacheTTL>>
  /\ UNCHANGED <<deployment, inUpdateWindow, clock, response, history, pipeline, calls>>

NextWrite ==
  \/ \E type \in WriteTypes, data \in StoredBefore, f \in FaultsOf(useGCS) :
       DirectWrite(type, data, f)
  \/ Tick

WriteSpec == InitRegistry /\ [][NextWrite]_vars

\* C32: writeData writes 'verified-devices' only: for every other type it
\* throws and writes neither the local file nor the bucket object, and for
\* 'verified-devices' it writes.
C32_OnlyVerifiedDevicesIsWritable ==
  dsCall.op = "writeData" =>
    /\ dsCall.type # "verified-devices" => (dsCall.threw /\ dsCall.written = {})
    /\ (dsCall.type = "verified-devices" /\ dsCall.faults = NoFaults)
         => (~dsCall.threw /\ "local" \in dsCall.written)

(***************************************************************************)
(* utils/timeUtils.js.  t is the Eastern wall-clock time in seconds since   *)
(* midnight; the functions read its hour and minute and drop the seconds.   *)
(***************************************************************************)
getHours(t) == t \div 3600
getMinutes(t) == (t % 3600) \div 60

\* A clock that is never in the update window.
neverInUpdateWindow(t) == FALSE

\* (hour === 23 && minute >= 50) || (hour === 0 && minute <= 10)
isInUpdateWindow(t) ==
  (getHours(t) = 23 /\ getMinutes(t) >= 50) \/ (getHours(t) = 0 /\ getMinutes(t) <= 10)

getSecondsUntilNextUpdate(t) ==
  IF isInUpdateWindow(t) THEN 60
  ELSE LET borrow == 50 - getMinutes(t) < 0
           hoursUntil == IF borrow THEN 23 - getHours(t) - 1 ELSE 23 - getHours(t)
           minutesUntil == IF borrow THEN 50 - getMinutes(t) + 60 ELSE 50 - getMinutes(t)
           secondsUntil == hoursUntil * 60 * 60 + minutesUntil * 60 IN
       IF secondsUntil < 24 * 60 * 60 THEN secondsUntil ELSE 24 * 60 * 60

getCacheDuration(t, contentType, defaultDuration) ==
  IF isInUpdateWindow(t) THEN 60
  ELSE LET secondsUntilUpdate == getSecondsUntilNextUpdate(t)
           safeDuration == IF secondsUntilUpdate - 5 * 60 > 60
                           THEN secondsUntilUpdate - 5 * 60 ELSE 60 IN
       CASE contentType \in {"data", "stats"} -> safeDuration
         [] contentType = "static" ->
              IF safeDuration > 48 * 60 * 60 THEN safeDuration ELSE 48 * 60 * 60
         [] OTHER -> IF defaultDuration < safeDuration THEN defaultDuration
                     ELSE safeDuration

\* Times of day of the model: every minute of the day, at its start, in
\* its middle and in its last second.
TimesOfDay == { m * 60 + sec : m \in 0..1439, sec \in {0, 30, 59} }

\* The server runs at some time of day; no request has arrived.
InitDuration ==
  /\ InitServerIdle
  /\ iteration = "v4"
  /\ rootValid = TRUE
  /\ attestation = Undecodable
  /\ challenge = Undefined
  /\ call = "none"
  /\ result = NoOutcome
  /\ bound = "none"
  /\ chainValid = "none"

\* setCacheHeaders(res, defaultMaxAge, contentType) at time of day t: the
\* max-age of Cache-Control is getCacheDuration(contentType, defaultMaxAge).
SetCacheHeaders(t, contentType, defaultMaxAge) ==
  /\ dsCall.op = "none"
  /\ dsCall' = [op |-> "getCacheDuration", at |-> t, contentType |-> contentType,
                value |-> getCacheDuration(t, contentType, defaultMaxAge)]
  /\ UNCHANGED <<deployment, registry, clock, response, history, pipeline, calls>>

NextDuration ==
  \E t \in TimesOfDay, contentType \in {"data", "stats", "static", "other"},
     defaultMaxAge \in {300, 3600} :
    SetCacheHeaders(t, contentType, defaultMaxAge)

DurationSpec == InitDuration /\ [][NextDuration]_vars

\* C35: getCacheDuration is at least 60; inside the update window it is 60
\* for every content type; outside, for every content type, the time of
\* day plus the duration is not later than 23:50, the start of the next
\* window.
C35_DurationEndsBeforeNextWindow ==
  dsCall.op = "getCacheDuration" =>
    /\ dsCall.value >= 60
    /\ isInUpdateWindow(dsCall.at) => dsCall.value = 60
    /\ ~isInUpdateWindow(dsCall.at)
         => dsCall.at + dsCall.value <= 23 * 3600 + 50 * 60

(***************************************************************************)
(* The cache of a lottery type around the update window.  The clock runs    *)
(* from 23:30 Eastern in steps of one minute: now counts the minutes,       *)
(* timeOfDay is the wall clock, cacheTTL and the cache timestamps are in    *)
(* minutes.  The setInterval callback of setupCacheRefreshSchedule runs     *)
(* every 5 minutes.  memoryCache is the entry of the lottery type.          *)
(***************************************************************************)
\* Last minute of the run (00:30).
MaxMinutes == 60

\* updateCacheTTL at time of day t, in minutes: 60 000 ms in the window, else
\* max(getSecondsUntilNextUpdate() * 1000 - 5 * 60 * 1000, 60 * 1000).
cacheTTLAt(t) ==
  IF isInUpdateWindow(t) THEN 1
  ELSE LET ms == getSecondsUntilNextUpdate(t) * 1000 - 5 * 60 * 1000 IN
       IF ms > 60 * 1000 THEN ms \div (60 * 1000) ELSE 1

\* 23:30: the service has been running since before; the last callback,
\* at most 5 minutes ago, was outside the window and set cacheTTL; the
\* cache holds an entry stored now or ten hours ago.
InitWindow ==
  /\ iteration = "v4"
  /\ rootValid = TRUE
  /\ authRoutes = "registry-routes"
  /\ isDev = FALSE
  /\ isProd = TRUE
  /\ useGCS \in BOOLEAN
  /\ now = 0
  /\ timeOfDay = 23 * 3600 + 30 * 60
  /\ timer \in 1..5
  /\ clockInWindow = FALSE
  /\ inUpdateWindow = FALSE
  /\ localFile = File(TRUE, {})
  /\ gcsFile = IF useGCS THEN File(TRUE, {}) ELSE NoFile
  /\ memoryCache \in { CacheEntry(TRUE, {}, 0), CacheEntry(TRUE, {}, 0 - 600) }
  /\ cacheTTL = cacheTTLAt(timeOfDay - (5 - timer) * 60)
  /\ response = NoResponse
  /\ issued = {}
  /\ presented = {}
  /\ stored = {}
  /\ confirmed = {}
  /\ attested = {}
  /\ calls = NoCalls
  /\ dsCall = NoDsCall
  /\ attestation = Undecodable
  /\ challenge = Undefined
  /\ call = "none"
  /\ result = NoOutcome
  /\ bound = "none"
  /\ chainValid = "none"

\* A minute passes; the callback runs before the clock goes past its time.
Minute ==
  /\ now < MaxMinutes
  /\ timer > 0
  /\ now' = now + 1
  /\ timeOfDay' = (timeOfDay + 60) % (24 * 3600)
  /\ clockInWindow' = isInUpdateWindow(timeOfDay')
  /\ timer' = timer - 1
  /\ UNCHANGED <<deployment, registry, response, history, pipeline, service>>

\* The setInterval callback: the window is sampled, updateCacheTTL runs,
\* the whole cache is dropped on entering the window; on leaving it
\* refreshAllCacheData stores a fresh entry, unless the read fails.
RefreshCheck(fails) ==
  LET wasInUpdateWindow == inUpdateWindow IN
  /\ timer = 0
  /\ timer' = 5
  /\ inUpdateWindow' = isInUpdateWindow(timeOfDay)
  /\ cacheTTL' = cacheTTLAt(timeOfDay)
  /\ memoryCache' =
       IF ~wasInUpdateWindow /\ inUpdateWindow' THEN NoCacheEntry
       ELSE IF wasInUpdateWindow /\ ~inUpdateWindow' /\ ~fails
       THEN CacheEntry(TRUE, {}, now)
       ELSE memoryCache
  /\ UNCHANGED <<deployment, localFile, gcsFile, now, clockInWindow, timeOfDay,
                 response, history, pipeline, service>>

\* readData(type) for a lottery type: the cached entry when getCachedData
\* has one, else a read (readDataFromGCS runs updateCacheTTL first) whose
\* result is cached; a failed read returns [] and caches nothing.  The call
\* is recorded with the time of day, whether it is the first read of the
\* run, whether the cache answered and the age of the entry served.
ReadLottery(fails) ==
  LET c == getCachedData(DS, now) IN
  /\ dsCall' = [op |-> "readData", at |-> timeOfDay, first |-> dsCall.op = "none",
                hit |-> c.hit,
                age |-> IF c.hit THEN now - memoryCache.timestamp ELSE 0]
  /\ cacheTTL' = IF ~c.hit /\ useGCS THEN cacheTTLAt(timeOfDay) ELSE cacheTTL
  /\ memoryCache' = IF c.hit THEN memoryCache
                    ELSE IF fails THEN c.D.cache
                    ELSE CacheEntry(TRUE, {}, now)
  /\ UNCHANGED <<deployment, localFile, gcsFile, inUpdateWindow, clock, response,
                 history, pipeline, calls>>

NextWindow ==
  \/ Minute
  \/ \E fails \in BOOLEAN : RefreshCheck(fails)
  \/ \E fails \in BOOLEAN : ReadLottery(fails)

WindowSpec == InitWindow /\ [][NextWindow]_vars

\* C33: a read made after the update window has ended (from 00:11 on) is
\* never answered with a cache entry that was stored before that window
\* started (before 23:50 of the day before).
C33_NoEntryFromBeforeTheWindowServedAfterIt ==
  ( /\ dsCall.op = "readData"
    /\ dsCall.hit
    /\ dsCall.at >= 11 * 60
    /\ dsCall.at < 23 * 3600 + 50 * 60 )
  => dsCall.age * 60 <= dsCall.at + 10 * 60

\* The first read of the run is made after the window has ended, and the
\* entry the cache held at 23:30 does not answer it.
C33_Witness ==
  /\ dsCall.op = "readData"
  /\ dsCall.first
  /\ ~dsCall.hit
  /\ dsCall.at >= 11 * 60
  /\ dsCall.at < 12 * 3600

\* C34: a readData that found nothing cached and fell back to the empty
\* object, because the local file is missing (after a failed GCS read, or
\* without GCS), leaves no entry in the memory cache.
C34_FallbackEmptyIsNotCached ==
  [][ \A f \in FaultsOf(useGCS) :
        ( /\ DirectRead(f)
          /\ ~getCachedData(DS, now).hit
          /\ ~localFile.exists
          /\ useGCS => (f.gcsRead \/ ~gcsFile.exists) )
        => ~memoryCache'.present ]_vars

(***************************************************************************)
(* The lottery routes, in the two iterations of routes/lottery.js: the one  *)
(* over Firestore (lines 1-194) and the one over the JSON files (195-313).  *)
(* One request is made to a server that has answered none.                  *)
(***************************************************************************)
\* Math.random() is k / 1000 for a k of this set.
RandomSamples == {0, 250, 500, 750, 999}

\* Math.floor(Math.random() * max) + 1
randomInt(k, max) == (k * max) \div 1000 + 1

\* numbers.sort((a, b) => a - b)
RECURSIVE sortNumbers(_)
sortNumbers(numbers) ==
  IF Len(numbers) <= 1 THEN numbers
  ELSE LET rest == sortNumbers(Tail(numbers))
           x == Head(numbers)
           smaller == SelectSeq(rest, LAMBDA y : y < x)
           others == SelectSeq(rest, LAMBDA y : y >= x) IN
       smaller \o <<x>> \o others

\* while (numbers.length < 5) { if (!numbers.includes(randomNum)) push }:
\* the numbers pushed when the random values arrive in the order of rolls.
RECURSIVE pushDistinct(_, _)
pushDistinct(numbers, rolls) ==
  IF Len(numbers) = 5 \/ Len(rolls) = 0 THEN numbers
  ELSE pushDistinct(IF \E i \in 1..Len(numbers) : numbers[i] = Head(rolls)
                    THEN numbers ELSE Append(numbers, Head(rolls)),
                    Tail(rolls))

\* The requests of the lottery routes carry no token or a valid one.
LotteryAuthorizations ==
  {NoAuthorization, Authorization("Bearer", Token("JWT_SECRET", MaxClock + 1, "kidA"))}

\* What verifyToken and validateLotteryType answer before the handler, or
\* the 200 response the handler starts from.
BeforeHandler(route, h, type) ==
  LET vt == verifyToken(h, now)
      r == [Response(route, 200) EXCEPT !.authorization = h, !.user = vt.user,
                                        !.query = [type |-> type]] IN
  IF ~vt.next
  THEN [r EXCEPT !.status = vt.status, !.error = vt.error, !.handler = FALSE]
  ELSE IF ~validateLotteryType(type)
  THEN [r EXCEPT !.status = 400, !.error = "Invalid lottery type", !.handler = FALSE]
  ELSE r

\* GET /generate-random over Firestore: maxNumber and maxSpecialBall test
\* type === 'megamillion'; five numbers are drawn independently and sorted;
\* the draw is made again while it equals a stored draw (existingDraws), so
\* the one answered is not among them; 500 when the query throws.
Snapshots ==
  { [throws |-> TRUE, draws |-> {}], [throws |-> FALSE, draws |-> {}],
    [throws |-> FALSE, draws |-> {<<1, 1, 1, 1, 1>>}] }

GenerateRandomFirestore(h, type, ks, kSpecial, snapshot) ==
  LET maxNumber == IF type = "megamillion" THEN 70 ELSE 69
      maxSpecialBall == IF type = "megamillion" THEN 25 ELSE 26
      numbers == sortNumbers([i \in 1..5 |-> randomInt(ks[i], maxNumber)])
      r == BeforeHandler("/api/lottery/generate-random", h, type) IN
  /\ response = NoResponse
  /\ (r.handler /\ ~snapshot.throws) => numbers \notin snapshot.draws
  /\ response' =
       IF ~r.handler THEN r
       ELSE IF snapshot.throws
       THEN [r EXCEPT !.status = 500, !.error = "Failed to generate numbers"]
       ELSE [r EXCEPT !.body = [numbers |-> numbers,
                                specialBall |-> randomInt(kSpecial, maxSpecialBall)]]
  /\ call' = "GenerateRandomFirestore"
  /\ UNCHANGED <<deployment, registry, clock, history, service>>
  /\ UNCHANGED <<attestation, challenge, result, bound, chainValid>>

\* GET /generate-random over the JSON files: numbers are drawn until five
\* different ones are held, then sorted; rolls are the values drawn, up to
\* the one that completes the five.
GenerateRandomJson(h, type, ks, kSpecial) ==
  LET maxNumber == IF type = "mega-millions" THEN 70 ELSE 69
      maxSpecialBall == IF type = "mega-millions" THEN 25 ELSE 26
      rolls == [i \in 1..Len(ks) |-> randomInt(ks[i], maxNumber)]
      numbers == pushDistinct(<<>>, rolls)
      r == BeforeHandler("/api/lottery/generate-random", h, type) IN
  /\ response = NoResponse
  /\ r.handler => Len(numbers) = 5
  /\ response' =
       IF ~r.handler THEN r
       ELSE [r EXCEPT !.body = [type |-> type, numbers |-> sortNumbers(numbers),
                                specialBall |-> randomInt(kSpecial, maxSpecialBall)]]
  /\ call' = "GenerateRandomJson"
  /\ UNCHANGED <<deployment, registry, clock, history, service>>
  /\ UNCHANGED <<attestation, challenge, result, bound, chainValid>>

\* A value of the query string: the parameter is absent, the decimal text
\* of the integer n, or a text that starts with no number ("abc").
QueryValue(kind, n) == [kind |-> kind, n |-> n]
Absent == QueryValue("absent", 0)
NonNumeric == QueryValue("text", 0)
Limits == {Absent, NonNumeric} \cup { QueryValue("integer", n) : n \in {0, 1, 2, 11, 0 - 1} }
Offsets == {Absent, NonNumeric} \cup { QueryValue("integer", n) : n \in {0, 1, 2, 12, 0 - 2} }

\* parseInt(req.query.x): NaN for undefined and for a text without a number.
parseInt(q) ==
  IF q.kind = "integer" THEN [nan |-> FALSE, value |-> q.n] ELSE [nan |-> TRUE, value |-> 0]

\* parseInt(q) || default: NaN and 0 are falsy.
parseIntOr(q, default) ==
  LET p == parseInt(q) IN IF p.nan \/ p.value = 0 THEN default ELSE p.value

\* Array.prototype.slice(start, end): a negative index counts from the end,
\* and both are clamped to the array.
slice(array, start, end) ==
  LET n == Len(array)
      rel(k) == IF k < 0 THEN (IF n + k < 0 THEN 0 ELSE n + k)
                ELSE (IF k > n THEN n ELSE k) IN
  SubSeq(array, rel(start) + 1, rel(end))

\* What readData(type) gives getLotteryDraws: the stored array of draws
\* (most recent first), the {} of a missing file, or an exception.
StoredDraws == { [i \in 1..n |-> i] : n \in {0, 3, 12} }
Reads ==
  { [kind |-> "array", draws |-> d] : d \in StoredDraws }
    \cup {[kind |-> "object", draws |-> <<>>], [kind |-> "throws", draws |-> <<>>]}

\* DataService.getLotteryDraws(type, limit, offset) when readData gives read
getLotteryDraws(type, limit, offset, read) ==
  IF type \notin lotteryTypes THEN <<>>
  ELSE IF read.kind # "array" \/ Len(read.draws) = 0 THEN <<>>
  ELSE slice(read.draws, offset, offset + limit)

\* GET / of the lottery routes over the JSON files, served at time of day t
GetLotteryDraws(h, type, limitQ, offsetQ, read, t) ==
  LET limit == parseIntOr(limitQ, 10)
      offset == parseIntOr(offsetQ, 0)
      draws == getLotteryDraws(type, limit, offset, read)
      b == BeforeHandler("/api/lottery", h, type)
      r == [b EXCEPT !.query = [type |-> type, limit |-> limitQ, offset |-> offsetQ]] IN
  /\ response = NoResponse
  /\ response' =
       IF ~r.handler THEN r
       ELSE [r EXCEPT !.body = draws, !.maxAge = getCacheDuration(t, "data", 10 * 60)]
  /\ dsCall' =
       IF ~r.handler THEN dsCall
       ELSE [op |-> "getLotteryDraws", type |-> type, limit |-> limit, offset |-> offset,
             read |-> read, value |-> draws]
  /\ call' = "GetLotteryDraws"
  /\ UNCHANGED <<deployment, registry, clock, history, calls>>
  /\ UNCHANGED <<attestation, challenge, result, bound, chainValid>>

NextLottery ==
  \/ \E h \in LotteryAuthorizations, type \in {"mega-millions", "powerball", "megamillion"},
         limitQ \in Limits, offsetQ \in Offsets, read \in Reads,
         t \in {12 * 3600, 23 * 3600 + 55 * 60} :
       GetLotteryDraws(h, type, limitQ, offsetQ, read, t)
  \/ \E h \in LotteryAuthorizations, type \in lotteryTypes,
         ks \in [1..5 -> RandomSamples], kSpecial \in {0, 999}, snapshot \in Snapshots :
       GenerateRandomFirestore(h, type, ks, kSpecial, snapshot)
  \/ \E h \in LotteryAuthorizations, type \in lotteryTypes,
         ks \in [1..6 -> RandomSamples], kSpecial \in {0, 999} :
       GenerateRandomJson(h, type, ks, kSpecial)

LotterySpec == InitDuration /\ [][NextLottery]_vars

\* C36: an answer of GET /api/lottery/generate-random holds exactly 5
\* numbers, pairwise distinct, in ascending order, each in 1..70 for
\* mega-millions and 1..69 for powerball, and a special ball in 1..25 for
\* mega-millions and 1..26 for powerball.
C36_RandomDrawIsWellFormed ==
  (call \in {"GenerateRandomFirestore", "GenerateRandomJson"} /\ response.status = 200)
  => LET numbers == response.body.numbers
         maxNumber == IF response.query.type = "mega-millions" THEN 70 ELSE 69
         maxSpecialBall == IF response.query.type = "mega-millions" THEN 25 ELSE 26 IN
     /\ Len(numbers) = 5
     /\ \A i \in 1..4 : numbers[i] < numbers[i + 1]
     /\ \A i \in 1..5 : numbers[i] \in 1..maxNumber
     /\ response.body.specialBall \in 1..maxSpecialBall

\* The draws at the 0-based positions offset .. offset + limit - 1 of the
\* stored draws, in stored order.
DrawsAt(draws, offset, limit) ==
  SubSeq(draws, (IF offset < 0 THEN 0 ELSE offset) + 1,
         IF offset + limit > Len(draws) THEN Len(draws) ELSE offset + limit)

\* C37: for every limit and offset given in the query of GET /api/lottery,
\* the answer holds at most limit draws (10 when limit is absent), namely
\* the stored draws at positions offset .. offset + limit - 1 in stored
\* order, the first offset draws being skipped.
C37_PageIsTheRequestedSlice ==
  ( /\ call = "GetLotteryDraws" /\ response.status = 200
    /\ response.query.limit.kind \in {"absent", "integer"}
    /\ response.query.offset.kind \in {"absent", "integer"}
    /\ dsCall.read.kind = "array" )
  => LET limit == IF response.query.limit.kind = "absent" THEN 10 ELSE response.query.limit.n
         offset == IF response.query.offset.kind = "absent" THEN 0 ELSE response.query.offset.n IN
     /\ Len(response.body) <= limit
     /\ response.body = DrawsAt(dsCall.read.draws, offset, limit)

====
